---------------------------- MODULE Spec2Model ----------------------------
(***************************************************************************)
(* LaTeX decomposition pipeline of genproposal.py (LaTeXStructureParser).  *)
(*                                                                         *)
(* Text is a sequence of one-character strings, so that every regular      *)
(* expression of the source is evaluated character by character, the way   *)
(* Python's re module evaluates it (leftmost match, greedy repetition,     *)
(* non-overlapping substitution).  Offsets stored in the state are         *)
(* 0-based, as in the source; sequences are indexed from 1.                *)
(***************************************************************************)
EXTENDS Naturals, Integers, Sequences, FiniteSets, TLC

VARIABLES
    entry,              \* the function the caller invoked
    pc,                 \* position inside that function
    doc,                \* the argument the caller passed (never modified)
    latex_content,      \* working text of _remove_ignore_blocks
    passes,             \* iterations of the while loop of _remove_ignore_blocks
    content,            \* parse_paragraphs: the document body
    sections_map,       \* parse_paragraphs: sorted (offset, title, type) markers
    raw_paras,          \* parse_paragraphs: blank-line-delimited candidates
    idx,                \* parse_paragraphs: enumerate() position in raw_paras
    paragraphs,         \* parse_paragraphs: the list being returned
    current_section,
    current_subsection,
    section_pos,
    located,            \* history of (candidate, search start, para_pos)
    text,               \* _clean_paragraph_text: argument of the last call
    cleaned,            \* _clean_paragraph_text: result of the last call
    history,            \* ParagraphHistory.history: ordered section -> versions
    file,               \* the JSON document stored in the history file
    persisted,          \* the history as it was when the file was last saved
    now,                \* the reading of datetime.now()
    hop,                \* the last ParagraphHistory call and what it returned
    original_paragraphs,    \* extract_changes: first argument
    edited_paragraphs,      \* extract_changes: second argument
    summary,            \* extract_changes: what the call returned or raised
    original,           \* _compute_unified_diff: first argument
    edited,             \* _compute_unified_diff: second argument
    diff,               \* _compute_unified_diff: the text returned
    data,               \* process_json_instructions: the items of the JSON file
    apply_changes,      \* process_json_instructions: argument
    extract_changes_arg,    \* process_json_instructions: argument extract_changes
    global_hint,        \* process_json_instructions: argument
    results,            \* process_json_instructions: the list being built
    diffs,              \* process_json_instructions: index -> unified diff
    calls,              \* the calls made to the edit predictor, in order
    written,            \* the documents process_json_instructions wrote
    threads,            \* concurrent callers of add_version: where each stands
    lock,               \* the thread holding the callers' lock, 0 for none
    epoch,              \* per label, how many list objects were made for it
    log,                \* the add_version calls that ran to their end, in order
    max_retries,        \* DocumentationFetcher.max_retries
    delay,              \* DocumentationFetcher.delay
    attempt,            \* fetch_url: the loop variable
    trace,              \* fetch_url: the attempts made and the waits, in order
    fetched,            \* fetch_url: the dict returned
    interactive,        \* import_and_edit_latex: argument
    auto_instruction,   \* import_and_edit_latex: argument
    auto_hints,         \* import_and_edit_latex: argument
    extract_changes_summary,    \* import_and_edit_latex: argument
    current_hint,       \* import_and_edit_latex: the hint of this paragraph
    prompts,            \* choices the user has made at this paragraph
    chosen              \* per result, the choice that made it

vars == <<entry, pc, doc, latex_content, passes, content, sections_map,
          raw_paras, idx, paragraphs, current_section, current_subsection,
          section_pos, located, text, cleaned, history, file, persisted, now, hop,
          original_paragraphs, edited_paragraphs, summary, original, edited,
          diff, data, apply_changes, extract_changes_arg, global_hint,
          results, diffs, calls, written, threads, lock, epoch, log,
          max_retries, delay, attempt, trace, fetched, interactive,
          auto_instruction, auto_hints, extract_changes_summary,
          current_hint, prompts, chosen>>

parseVars == <<content, sections_map, raw_paras, idx, paragraphs,
               current_section, current_subsection, section_pos, located>>

cleanVars == <<text, cleaned>>

historyVars == <<history, file, persisted, now, hop>>

changeVars == <<original_paragraphs, edited_paragraphs, summary>>

diffVars == <<original, edited, diff>>

batchVars == <<data, apply_changes, extract_changes_arg, global_hint, results,
               diffs, calls, written>>

threadVars == <<threads, lock, epoch, log>>

\* the state of the operations added after the batch processing
fetchVars == <<max_retries, delay, attempt, trace, fetched>>

sessionVars == <<interactive, auto_instruction, auto_hints,
                 extract_changes_summary, current_hint, prompts, chosen>>

moreVars == <<threadVars, fetchVars, sessionVars>>

\* what the ParagraphHistory methods do not touch
toolVars == <<changeVars, diffVars, batchVars>>

\* everything outside the LaTeX decomposition pipeline
editVars == <<historyVars, toolVars>>

\* a JSON document is a tree of nodes, a string's text in val and a number in
\* num; "missing" is a path with no file, "invalid" a file that is not JSON
JNode(t, kids, val, num) == [t |-> t, kids |-> kids, val |-> val, num |-> num]
NoFile == JNode("missing", <<>>, "", 0)

\* a ParagraphHistory call: its name, arguments, the exception it raised
\* ("" for none) and the value it returned
Call(op, section, c, error, result) ==
    [op |-> op, section |-> section, content |-> c, error |-> error,
     result |-> result]
NoCall == Call("none", "", "", "", <<>>)

HistoryIdle ==
    /\ history = <<>>
    /\ file = NoFile
    /\ persisted = [valid |-> FALSE, history |-> <<>>]
    /\ now = 0
    /\ hop = NoCall

ChangeIdle ==
    /\ original_paragraphs = <<>>
    /\ edited_paragraphs = <<>>
    /\ summary = <<>>

DiffIdle ==
    /\ original = <<>>
    /\ edited = <<>>
    /\ diff = <<>>

BatchIdle ==
    /\ data = <<>>
    /\ apply_changes = FALSE
    /\ extract_changes_arg = FALSE
    /\ global_hint = "<None>"
    /\ results = <<>>
    /\ diffs = <<>>
    /\ calls = <<>>
    /\ written = <<>>

ToolsIdle == ChangeIdle /\ DiffIdle /\ BatchIdle

ThreadsIdle ==
    /\ threads = <<>>
    /\ lock = 0
    /\ epoch = <<>>
    /\ log = <<>>

FetchIdle ==
    /\ max_retries = 0
    /\ delay = 0
    /\ attempt = 0
    /\ trace = <<>>
    /\ fetched = <<>>

SessionIdle ==
    /\ interactive = FALSE
    /\ auto_instruction = "<None>"
    /\ auto_hints = "<None>"
    /\ extract_changes_summary = FALSE
    /\ current_hint = ""
    /\ prompts = 0
    /\ chosen = <<>>

MoreIdle == ThreadsIdle /\ FetchIdle /\ SessionIdle

EditIdle == HistoryIdle /\ ToolsIdle

-----------------------------------------------------------------------------
(* Bounds of the explored inputs.                                          *)

MaxIgnorePieces == 5    \* pieces concatenated into a _remove_ignore_blocks input
MaxBlocks == 3          \* blank-line-separated blocks of a parse_paragraphs input
MaxCleanPieces == 4     \* pieces concatenated into a _clean_paragraph_text input
MaxPasses == 3          \* the pass counter saturates here

-----------------------------------------------------------------------------
(* Characters and character classes.                                       *)

BS == "\\"
NL == "\n"

\* Python's \s and str.strip() whitespace (ASCII part)
Whitespace == {" ", "\t", "\n", "\r", "\f"}

\* Python's \w (ASCII part), used by \b
WordChars ==
    {"a","b","c","d","e","f","g","h","i","j","k","l","m","n","o","p","q",
     "r","s","t","u","v","w","x","y","z",
     "A","B","C","D","E","F","G","H","I","J","K","L","M","N","O","P","Q",
     "R","S","T","U","V","W","X","Y","Z",
     "0","1","2","3","4","5","6","7","8","9","_"}

Min(S) == CHOOSE m \in S : \A n \in S : m <= n

\* str.startswith at 1-based position i
IsPrefixAt(lit, s, i) ==
    /\ i + Len(lit) - 1 <= Len(s)
    /\ \A k \in 1..Len(lit) : s[i + k - 1] = lit[k]

startswith(s, lit) == IsPrefixAt(lit, s, 1)

\* first 1-based position >= i holding a character of C, 0 if there is none
FirstIn(s, i, C) ==
    LET J == {j \in i..Len(s) : s[j] \in C}
    IN  IF J = {} THEN 0 ELSE Min(J)

\* first 1-based position >= i holding a character outside C, Len(s)+1 if none
SpanEnd(s, i, C) ==
    LET J == {j \in i..Len(s) : s[j] \notin C}
    IN  IF J = {} THEN Len(s) + 1 ELSE Min(J)

\* 1-based position of the first occurrence of lit at or after i, 0 if none
SearchFrom(lit, s, i) ==
    LET J == {j \in i..Len(s) : IsPrefixAt(lit, s, j)}
    IN  IF J = {} THEN 0 ELSE Min(J)

\* the Python operator "lit in s"
Contains(s, lit) == SearchFrom(lit, s, 1) # 0

\* a search that begins one character after start
find_past_start(s, sub, start) ==
    LET j == SearchFrom(sub, s, start + 2)
    IN  IF j = 0 THEN -1 ELSE j - 1

\* str.find(sub, start) with 0-based offsets, -1 when absent
find(s, sub, start) ==
    LET j == SearchFrom(sub, s, start + 1)
    IN  IF j = 0 THEN -1 ELSE j - 1

\* str.strip()
strip(s) ==
    LET a == SpanEnd(s, 1, Whitespace)
        K == {j \in 1..Len(s) : s[j] \notin Whitespace}
    IN  IF K = {} THEN <<>>
        ELSE SubSeq(s, a, CHOOSE m \in K : \A n \in K : n <= m)

-----------------------------------------------------------------------------
(* Literals of the source.                                                 *)

IgnoreOpen   == <<"\\","i","g","n","o","r","e","{">>
LitSection   == <<"\\","s","e","c","t","i","o","n">>
LitSubsection == <<"\\","s","u","b","s","e","c","t","i","o","n">>
LitBeginDocument == <<"\\","b","e","g","i","n","{","d","o","c","u","m","e","n","t","}">>
LitEndDocument == <<"\\","e","n","d","{","d","o","c","u","m","e","n","t","}">>
LitMaketitle == <<"\\","m","a","k","e","t","i","t","l","e">>
LitTableofcontents ==
    <<"\\","t","a","b","l","e","o","f","c","o","n","t","e","n","t","s">>
LitItem == <<"\\","i","t","e","m">>

EnvNames == {<<"b","e","g","i","n">>, <<"e","n","d">>}
RefNames == {<<"c","i","t","e">>, <<"r","e","f">>, <<"l","a","b","e","l">>}
FormatNames ==
    {<<"t","e","x","t","b","f">>, <<"t","e","x","t","i","t">>,
     <<"e","m","p","h">>, <<"t","e","x","t","t","t">>, <<"t","e","x","t">>,
     <<"s","o","u","t">>, <<"u","l","i","n","e">>}
StyleNames == {<<"e","m">>, <<"i","t">>, <<"b","f">>}

-----------------------------------------------------------------------------
(* Regular expressions.  A matcher takes the text and a 1-based position   *)
(* and yields the position just after the match, or 0 when the pattern     *)
(* does not match there.                                                   *)

\* ([^{}]|\{[^{}]*\})*\}  from position j
RECURSIVE IgnoreBodyEnd(_, _)
IgnoreBodyEnd(s, j) ==
    IF j > Len(s) THEN 0
    ELSE IF s[j] = "}" THEN j + 1
    ELSE IF s[j] = "{"
         THEN LET k == FirstIn(s, j + 1, {"{", "}"})
              IN  IF k = 0 \/ s[k] = "{" THEN 0 ELSE IgnoreBodyEnd(s, k + 1)
    ELSE IgnoreBodyEnd(s, j + 1)

\* \\ignore\{[^}]*\} : the pattern without the nested-brace alternative, a
\* variant that C5 must be able to tell from the pattern of the source
MatchIgnoreToFirstBrace(s, i) ==
    LET k == FirstIn(s, i + Len(IgnoreOpen), {"}"})
    IN  IF IsPrefixAt(IgnoreOpen, s, i) /\ k # 0 THEN k + 1 ELSE 0

\* \\ignore\{([^{}]|\{[^{}]*\})*\}
MatchIgnore(s, i) ==
    IF IsPrefixAt(IgnoreOpen, s, i) THEN IgnoreBodyEnd(s, i + Len(IgnoreOpen))
    ELSE 0

\* 1-based position of the opening brace of \\(n1|n2|...)\{ at i, 0 if no match
CommandBrace(names, s, i) ==
    IF i <= Len(s) /\ s[i] = BS
       /\ \E n \in names : IsPrefixAt(n \o <<"{">>, s, i + 1)
    THEN i + 1 + Len(CHOOSE n \in names : IsPrefixAt(n \o <<"{">>, s, i + 1))
    ELSE 0

\* \\(n1|n2|...)\{[^}]*\}
MatchCommand(names, s, i) ==
    LET b == CommandBrace(names, s, i)
        k == IF b = 0 THEN 0 ELSE FirstIn(s, b + 1, {"}"})
    IN  IF k = 0 THEN 0 ELSE k + 1

\* \\(em|it|bf)\b\s*
MatchStyle(s, i) ==
    IF i <= Len(s) /\ s[i] = BS
       /\ \E n \in StyleNames : IsPrefixAt(n, s, i + 1)
       /\ (i + 3 > Len(s) \/ s[i + 3] \notin WordChars)
    THEN SpanEnd(s, i + 3, Whitespace)
    ELSE 0

\* \\item\s+
MatchItem(s, i) ==
    IF IsPrefixAt(LitItem, s, i)
       /\ i + 5 <= Len(s) /\ s[i + 5] \in Whitespace
    THEN SpanEnd(s, i + 5, Whitespace)
    ELSE 0

\* \$([^$]+)\$
MatchMath(s, i) ==
    LET k == FirstIn(s, i + 1, {"$"})
    IN  IF i <= Len(s) /\ s[i] = "$" /\ k > i + 1 THEN k + 1 ELSE 0

\* \s+
MatchSpace(s, i) ==
    IF i <= Len(s) /\ s[i] \in Whitespace THEN SpanEnd(s, i, Whitespace) ELSE 0

\* the patterns that re.sub is called with, and their replacements
MatchEnd(re, s, i) ==
    CASE re = "ignore" -> MatchIgnore(s, i)
      [] re = "env"    -> MatchCommand(EnvNames, s, i)
      [] re = "ref"    -> MatchCommand(RefNames, s, i)
      [] re = "format" -> MatchCommand(FormatNames, s, i)
      [] re = "style"  -> MatchStyle(s, i)
      [] re = "item"   -> MatchItem(s, i)
      [] re = "math"   -> MatchMath(s, i)
      [] re = "space"  -> MatchSpace(s, i)
      [] re = "crlf"   -> IF IsPrefixAt(<<"\r", "\n">>, s, i) THEN i + 2 ELSE 0

Replacement(re, s, i, e) ==
    CASE re = "format" ->
            SubSeq(s, CommandBrace(FormatNames, s, i) + 1, e - 2)     \* r'\2'
      [] re = "math"   -> <<"[">> \o SubSeq(s, i + 1, e - 2) \o <<"]">> \* r'[\1]'
      [] re = "space"  -> <<" ">>
      [] re = "crlf"   -> <<"\n">>
      [] OTHER         -> <<>>

\* re.sub(pattern, repl, s): every non-overlapping match, left to right
RECURSIVE SubFrom(_, _, _, _)
SubFrom(re, s, i, acc) ==
    IF i > Len(s) THEN acc
    ELSE LET e == MatchEnd(re, s, i)
         IN  IF e = 0 THEN SubFrom(re, s, i + 1, Append(acc, s[i]))
             ELSE SubFrom(re, s, e, acc \o Replacement(re, s, i, e))

sub(re, s) == SubFrom(re, s, 1, <<>>)


-----------------------------------------------------------------------------
(* Inputs.  A text is the concatenation of a bounded number of pieces.     *)

RECURSIVE Concat(_)
Concat(ps) == IF ps = <<>> THEN <<>> ELSE Head(ps) \o Concat(Tail(ps))

\* every concatenation of at most n pieces of P
Texts(P, n) == {Concat(ps) : ps \in UNION {[1..k -> P] : k \in 0..n}}

\* "\ign" and "ore{" join into the opening token when what lies between
\* them is removed
IgnorePieces ==
    {IgnoreOpen, <<"{">>, <<"}">>, <<"k">>, <<"d">>,
     <<"\\","i","g","n">>, <<"o","r","e","{">>}

\* k \ignore{d \ignore{d}} k : an ignore block inside an ignore block
NestedIgnoreDoc ==
    <<"k"," ">> \o IgnoreOpen \o <<"d"," ">> \o IgnoreOpen \o <<"d","}","}"," ","k">>

\* the document of test_ignore_blocks, prose shortened to one letter
IgnoreTestDoc ==
    <<"\n">> \o LitSection \o <<"{","T","}","\n","k","\n","\n">>
    \o IgnoreOpen \o <<"d","}","\n","\n","k","\n">>

IgnoreDocs == Texts(IgnorePieces, MaxIgnorePieces) \cup {NestedIgnoreDoc, IgnoreTestDoc}

-----------------------------------------------------------------------------
(* _remove_ignore_blocks                                                    *)

\* one evaluation of the re.sub of the loop body
RemovePass(s) == sub("ignore", s)

IncPasses(n) == IF n < MaxPasses THEN n + 1 ELSE n

\* while '\\ignore{' in latex_content: latex_content = re.sub(...)
StripPass ==
    /\ pc = "strip"
    /\ Contains(latex_content, IgnoreOpen)
    /\ latex_content' = RemovePass(latex_content)
    /\ passes' = IncPasses(passes)
    /\ UNCHANGED <<moreVars, entry, editVars, pc, doc, parseVars, cleanVars>>

\* the loop condition is false: return latex_content
StripReturn ==
    /\ pc = "strip"
    /\ ~Contains(latex_content, IgnoreOpen)
    /\ pc' = "stripped"
    /\ UNCHANGED <<moreVars, entry, editVars, doc, latex_content, passes, parseVars, cleanVars>>

\* the parser at rest, whatever list it returned last
ParserIdle ==
    /\ passes = 0
    /\ content = <<>>
    /\ sections_map = <<>>
    /\ raw_paras = <<>>
    /\ idx = 0
    /\ current_section = <<>>
    /\ current_subsection = <<>>
    /\ section_pos = 0
    /\ located = <<>>
    /\ text = <<>>
    /\ cleaned = <<>>

PipelineIdle == ParserIdle /\ paragraphs = <<>>

InitRest == PipelineIdle /\ EditIdle

InitStrip ==
    /\ MoreIdle
    /\ entry = "_remove_ignore_blocks"
    /\ pc = "strip"
    /\ doc \in IgnoreDocs
    /\ latex_content = doc
    /\ InitRest

NextStrip == StripPass \/ StripReturn

SpecStrip == InitStrip /\ [][NextStrip]_vars


-----------------------------------------------------------------------------
(* _clean_paragraph_text                                                    *)

clean_paragraph_text(t) ==
    LET t1 == sub("env", t)         \* \begin{...} and \end{...}
        t2 == sub("ref", t1)        \* \cite, \ref, \label
        t3 == sub("format", t2)     \* \textbf{...} etc. -> inner text
        t4 == sub("style", t3)      \* \em, \it, \bf
        t5 == sub("item", t4)       \* \item markers
        t6 == sub("math", t5)       \* $...$ -> [...]
    IN  strip(sub("space", t6))

CleanPieces ==
    {<<"\\","t","e","x","t","b","f","{">>, <<"\\","e","m","p","h","{">>,
     <<"\\","c","i","t","e","{">>, <<"}">>, <<"x">>, <<" ">>, <<"$">>,
     <<"\\","e","m">>, LitItem}

\* the text of test_paragraph_cleaning
CleanTestText ==
    <<"T","h","i","s"," ","i","s"," ","\\","t","e","x","t","b",
      "f","{","b","o","l","d","}"," ","t","e","x","t"," ","w",
      "i","t","h"," ","\\","c","i","t","e","{","r","e","f","e",
      "r","e","n","c","e","}"," ","a","n","d"," ","\\","e","m",
      "p","h","{","e","m","p","h","a","s","i","s","}",".">>

\* \textbf{\emph{x}} : a bold wrapper around an emphasis wrapper
NestedFormatText ==
    <<"\\","t","e","x","t","b","f","{","\\","e","m","p","h","{","x","}","}">>

CleanTexts ==
    Texts(CleanPieces, MaxCleanPieces) \cup {CleanTestText, NestedFormatText}

\* a caller evaluates _clean_paragraph_text(doc)
CleanCall ==
    /\ pc = "clean"
    /\ text' = doc
    /\ cleaned' = clean_paragraph_text(doc)
    /\ pc' = "cleaned"
    /\ UNCHANGED <<moreVars, entry, editVars, doc, latex_content, passes, parseVars>>

\* the caller passes the result back in
CleanAgain ==
    /\ pc = "cleaned"
    /\ text' = cleaned
    /\ cleaned' = clean_paragraph_text(cleaned)
    /\ pc' = "recleaned"
    /\ UNCHANGED <<moreVars, entry, editVars, doc, latex_content, passes, parseVars>>

InitClean ==
    /\ MoreIdle
    /\ entry = "_clean_paragraph_text"
    /\ pc = "clean"
    /\ doc \in CleanTexts
    /\ latex_content = <<>>
    /\ InitRest

NextClean == CleanCall \/ CleanAgain

SpecClean == InitClean /\ [][NextClean]_vars


-----------------------------------------------------------------------------
(* parse_paragraphs                                                         *)

\* content[match.end():] for the first \begin{document}, if there is one
RemovePreamble(c) ==
    LET j == SearchFrom(LitBeginDocument, c, 1)
    IN  IF j = 0 THEN c ELSE SubSeq(c, j + Len(LitBeginDocument), Len(c))

\* re.sub(r'\\end\{document\}.*', '', content, flags=re.DOTALL)
RemoveEnd(c) ==
    LET j == SearchFrom(LitEndDocument, c, 1)
    IN  IF j = 0 THEN c ELSE SubSeq(c, 1, j - 1)

\* content.replace('\r\n', '\n')
NormalizeLineEndings(c) == sub("crlf", c)

Body(c) == NormalizeLineEndings(RemoveEnd(RemovePreamble(c)))

\* \\section\*?\{([^}]+)\}  (lit is \section or \subsection): the 1-based
\* position of the opening brace, 0 when there is no match at i
MarkerBrace(lit, s, i) ==
    LET j == i + Len(lit)
        b == IF j <= Len(s) /\ s[j] = "*" THEN j + 1 ELSE j
        k == FirstIn(s, b + 1, {"}"})
    IN  IF IsPrefixAt(lit, s, i) /\ b <= Len(s) /\ s[b] = "{" /\ k > b + 1
        THEN b ELSE 0

\* re.finditer: (m.start(), m.group(1), type) of every non-overlapping match
RECURSIVE FindMarkers(_, _, _, _)
FindMarkers(lit, type, s, i) ==
    IF i > Len(s) THEN <<>>
    ELSE LET b == MarkerBrace(lit, s, i)
             k == FirstIn(s, b + 1, {"}"})
         IN  IF b = 0 THEN FindMarkers(lit, type, s, i + 1)
             ELSE <<[pos |-> i - 1, title |-> SubSeq(s, b + 1, k - 1),
                     type |-> type]>>
                  \o FindMarkers(lit, type, s, k + 1)

\* list.sort(key=lambda x: x[0]): stable insertion by offset
RECURSIVE SortByPos(_)
SortByPos(ms) ==
    IF ms = <<>> THEN <<>>
    ELSE LET rest == SortByPos(SubSeq(ms, 1, Len(ms) - 1))
             m == ms[Len(ms)]
             n == Cardinality({k \in 1..Len(rest) : rest[k].pos <= m.pos})
         IN  SubSeq(rest, 1, n) \o <<m>> \o SubSeq(rest, n + 1, Len(rest))

ScanMarkers(c) ==
    SortByPos(FindMarkers(LitSection, "section", c, 1)
              \o FindMarkers(LitSubsection, "subsection", c, 1))

\* re.split(r'\n\n+', s), each piece with the 0-based offset it starts at
RECURSIVE SplitFrom(_, _, _, _)
SplitFrom(s, i, cur, acc) ==
    IF i > Len(s) THEN Append(acc, cur)
    ELSE IF s[i] = NL /\ i + 1 <= Len(s) /\ s[i + 1] = NL
         THEN LET e == SpanEnd(s, i, {NL})
              IN  SplitFrom(s, e, [start |-> e - 1, text |-> <<>>],
                            Append(acc, cur))
    ELSE SplitFrom(s, i + 1, [cur EXCEPT !.text = Append(@, s[i])], acc)

SplitSpans(s) == SplitFrom(s, 1, [start |-> 0, text |-> <<>>], <<>>)

split(s) == LET sp == SplitSpans(s) IN [k \in 1..Len(sp) |-> sp[k].text]

Directives ==
    {LitMaketitle, LitTableofcontents, LitBeginDocument, LitEndDocument}

\* the candidate the loop is about to look at, trimmed
para == strip(raw_paras[idx + 1])

\* para.startswith('\\section') or para.startswith('\\subsection')
SkipsAsStructure(p) == startswith(p, LitSection) \/ startswith(p, LitSubsection)

\* the for loop over sections_map, from marker k on, with its break
RECURSIVE Attribute(_, _, _, _)
Attribute(ms, k, para_pos, cur) ==
    IF k > Len(ms) \/ ms[k].pos > para_pos THEN cur
    ELSE IF ms[k].type = "section"
         THEN Attribute(ms, k + 1, para_pos,
                        [section |-> ms[k].title, subsection |-> <<>>])
    ELSE Attribute(ms, k + 1, para_pos, [cur EXCEPT !.subsection = ms[k].title])

\* bool(re.search(r'\\item\b', para))
InEnvironment(p) ==
    \E i \in 1..Len(p) :
        /\ IsPrefixAt(LitItem, p, i)
        /\ (i + 5 > Len(p) \/ p[i + 5] \notin WordChars)

\* numbering from 1, a variant that C3 must be able to tell from the source
NextIndexOneBased(ps) == Len(ps) + 1

\* the value of "index" of a new paragraph
NextIndex(ps) == Len(ps)

\* lines 114-141: everything before the loop
Prepare ==
    /\ pc = "stripped"
    /\ entry = "parse_paragraphs"
    /\ content' = Body(latex_content)
    /\ sections_map' = ScanMarkers(content')
    /\ raw_paras' = split(content')
    /\ paragraphs' = <<>>
    /\ current_section' = <<>>
    /\ current_subsection' = <<>>
    /\ section_pos' = 0
    /\ idx' = 0
    /\ pc' = "loop"
    /\ UNCHANGED <<moreVars, entry, editVars, doc, latex_content, passes, located, cleanVars>>

Skip ==
    /\ idx' = idx + 1
    /\ UNCHANGED <<moreVars, entry, editVars, pc, doc, latex_content, passes, content,
                   sections_map, raw_paras, paragraphs, current_section,
                   current_subsection, section_pos, located, cleanVars>>

\* if not para: continue
SkipEmpty ==
    /\ pc = "loop"
    /\ idx < Len(raw_paras)
    /\ para = <<>>
    /\ Skip

\* if para.startswith('\\section') or para.startswith('\\subsection'): continue
SkipStructure ==
    /\ pc = "loop"
    /\ idx < Len(raw_paras)
    /\ para # <<>>
    /\ SkipsAsStructure(para)
    /\ Skip

\* if para in ('\\maketitle', ...): continue
SkipDirective ==
    /\ pc = "loop"
    /\ idx < Len(raw_paras)
    /\ para # <<>>
    /\ ~SkipsAsStructure(para)
    /\ para \in Directives
    /\ Skip

\* lines 156-187: locate, attribute, clean, append unless cleaned is empty
Assemble ==
    /\ pc = "loop"
    /\ idx < Len(raw_paras)
    /\ para # <<>>
    /\ ~SkipsAsStructure(para)
    /\ para \notin Directives
    /\ LET found == find(content, para, section_pos)
           para_pos == IF found = -1 THEN section_pos ELSE found
           cur == Attribute(sections_map, 1, para_pos,
                            [section |-> current_section,
                             subsection |-> current_subsection])
           c == clean_paragraph_text(para)
       IN  /\ section_pos' = para_pos + Len(para)
           /\ current_section' = cur.section
           /\ current_subsection' = cur.subsection
           /\ paragraphs' =
                 IF c = <<>> THEN paragraphs
                 ELSE Append(paragraphs,
                             [index |-> NextIndex(paragraphs),
                              section |-> cur.section,
                              subsection |-> cur.subsection,
                              paragraph |-> c,
                              is_in_environment |-> InEnvironment(para)])
           /\ located' = Append(located,
                                [cand |-> idx + 1, from |-> section_pos,
                                 found |-> found, kept |-> c # <<>>])
    /\ idx' = idx + 1
    /\ UNCHANGED <<moreVars, entry, editVars, pc, doc, latex_content, passes, content,
                   sections_map, raw_paras, cleanVars>>

\* return paragraphs
ParseReturn ==
    /\ pc = "loop"
    /\ idx = Len(raw_paras)
    /\ pc' = "done"
    /\ UNCHANGED <<moreVars, entry, editVars, doc, latex_content, passes, parseVars, cleanVars>>

RECURSIVE Join(_)
Join(bs) ==
    IF bs = <<>> THEN <<>>
    ELSE IF Len(bs) = 1 THEN bs[1]
    ELSE bs[1] \o <<NL, NL>> \o Join(Tail(bs))

SectionA == LitSection \o <<"{","A","}">>
SectionB == LitSection \o <<"{","B","}">>
SubsectionS == LitSubsection \o <<"{","S","}">>

Blocks ==
    {SectionA, SectionB, SubsectionS, <<"x">>, <<"A">>,
     SectionA \o <<NL, "x">>, SubsectionS \o <<NL, "x">>,
     <<"\\","c","i","t","e","{","c","}">>, LitMaketitle, <<" ">>,
     IgnoreOpen \o <<"d","}">>, LitBeginDocument, LitEndDocument}

\* the scenario of the specification's section 8
ScenarioDoc ==
    <<"\\","s","e","c","t","i","o","n","{","I","n","t","r","o",
      "}","\n","H","e","l","l","o"," ","w","o","r","l","d",".",
      "\n","\n","\\","s","u","b","s","e","c","t","i","o","n","{",
      "D","e","t","a","i","l","s","}","\n","M","o","r","e"," ",
      "t","e","x","t",".","\n","\n","\\","s","e","c","t","i","o",
      "n","{","N","e","x","t","}","\n","F","i","n","a","l",".">>

ParseDocs ==
    {Join(bs) : bs \in UNION {[1..k -> Blocks] : k \in 0..MaxBlocks}}
    \cup {ScenarioDoc}

InitParse ==
    /\ MoreIdle
    /\ entry = "parse_paragraphs"
    /\ pc = "strip"
    /\ doc \in ParseDocs
    /\ latex_content = doc
    /\ InitRest

NextParse ==
    \/ StripPass
    \/ StripReturn
    \/ Prepare
    \/ SkipEmpty
    \/ SkipStructure
    \/ SkipDirective
    \/ Assemble
    \/ ParseReturn

SpecParse == InitParse /\ [][NextParse]_vars


-----------------------------------------------------------------------------
(* The three entry points together.                                        *)

-----------------------------------------------------------------------------
(* ParagraphVersion and ParagraphHistory                                   *)

MaxVersions == 2        \* add_version is called while the store holds fewer

Labels == {"A", "B"}    \* section titles the callers use
Contents == {"x", "y"}  \* paragraph texts the callers store

IdModulus == 10000

\* Python's hash() of the pair: a fixed function whose values nothing relies on
ContentCode(c) == CASE c = "x" -> 1 [] c = "y" -> 2 [] c = "e" -> 5 [] OTHER -> 0
hash(c, t) == ContentCode(c) + 3 * t

\* the readings of datetime.now() in the explored runs, and those it can give
\* next: two calls can read the same instant, and time does not go back
Instants == {0, 1}
Ticks == {t \in Instants : t >= now}

ParagraphVersion(c, section_title, t) ==
    [content |-> c, section_title |-> section_title, timestamp |-> t,
     version_id |-> hash(c, t) % IdModulus]

to_dict(v) ==
    [version_id |-> v.version_id, section |-> v.section_title,
     content |-> v.content, timestamp |-> v.timestamp]

\* self.history is a dict: an insertion-ordered list of (section, versions)
Keys(h) == {h[i].section : i \in 1..Len(h)}
KeyPos(h, L) == CHOOSE i \in 1..Len(h) : h[i].section = L

\* h.get(L, [])
get(h, L) == IF L \in Keys(h) THEN h[KeyPos(h, L)].versions ELSE <<>>

\* h[L] = vs
setitem(h, L, vs) ==
    IF L \in Keys(h)
    THEN [h EXCEPT ![KeyPos(h, L)].versions = vs]
    ELSE Append(h, [section |-> L, versions |-> vs])

\* add_version putting the new version first instead of last
add_version_first(h, section_title, c, t) ==
    LET h1 == IF section_title \notin Keys(h)
              THEN setitem(h, section_title, <<>>)
              ELSE h
    IN  setitem(h1, section_title,
                <<ParagraphVersion(c, section_title, t)>>
                    \o get(h1, section_title))

add_version(h, section_title, c, t) ==
    LET h1 == IF section_title \notin Keys(h)
              THEN setitem(h, section_title, <<>>)
              ELSE h
    IN  setitem(h1, section_title,
                Append(get(h1, section_title),
                       ParagraphVersion(c, section_title, t)))

get_versions(h, section_title) ==
    LET vs == get(h, section_title)
    IN  [i \in 1..Len(vs) |-> to_dict(vs[i])]

\* json.dump of one to_dict(); the clock reading stands for its ISO text
VersionJson(d) ==
    JNode("object",
          << [k |-> "version_id", v |-> JNode("number", <<>>, "", d.version_id)],
             [k |-> "section",    v |-> JNode("string", <<>>, d.section, 0)],
             [k |-> "content",    v |-> JNode("string", <<>>, d.content, 0)],
             [k |-> "timestamp",  v |-> JNode("string", <<>>, "", d.timestamp)] >>,
          "", 0)

JArray(items) ==
    JNode("array", [i \in 1..Len(items) |-> [k |-> "", v |-> items[i]]], "", 0)

\* save_to_file writing only the latest version of every section
save_latest_only(h) ==
    JNode("object",
          [i \in 1..Len(h) |->
              [k |-> h[i].section,
               v |-> JArray([j \in 1..(IF h[i].versions = <<>> THEN 0 ELSE 1) |->
                                VersionJson(to_dict(
                                    h[i].versions[Len(h[i].versions)]))])]],
          "", 0)

\* the document save_to_file writes
save_to_file(h) ==
    JNode("object",
          [i \in 1..Len(h) |->
              [k |-> h[i].section,
               v |-> JArray([j \in 1..Len(h[i].versions) |->
                                VersionJson(to_dict(h[i].versions[j]))])]],
          "", 0)

HasMember(node, key) == \E i \in 1..Len(node.kids) : node.kids[i].k = key
Member(node, key) ==
    node.kids[CHOOSE i \in 1..Len(node.kids) : node.kids[i].k = key].v

\* the Python value json.load gives for a scalar; containers stay nodes
FromJson(node) ==
    CASE node.t = "string" -> node.val
      [] node.t = "number" -> node.num
      [] OTHER -> node

\* [ParagraphVersion(v["content"], section) for v in versions]
LoadVersions(versions, section, t) ==
    LET n == Len(versions.kids)
        Bad(i) == \/ versions.kids[i].v.t # "object"
                  \/ ~HasMember(versions.kids[i].v, "content")
        Fail(e) == [error |-> e, versions |-> <<>>]
    IN  CASE versions.t = "array" ->
               IF \E i \in 1..n : Bad(i)
               THEN LET i == CHOOSE i \in 1..n :
                                 Bad(i) /\ \A j \in 1..(i-1) : ~Bad(j)
                    IN  IF versions.kids[i].v.t # "object"
                        THEN Fail("TypeError")
                        ELSE Fail("KeyError")
               ELSE [error |-> "",
                     versions |-> [i \in 1..n |->
                        ParagraphVersion(
                            FromJson(Member(versions.kids[i].v, "content")),
                            section, t)]]
          \* iterating a dict gives its keys and iterating a string its
          \* characters: v["content"] is then an index into a string
          [] versions.t = "object" ->
               IF n = 0 THEN [error |-> "", versions |-> <<>>]
               ELSE Fail("TypeError")
          [] versions.t = "string" ->
               IF versions.val = "" THEN [error |-> "", versions |-> <<>>]
               ELSE Fail("TypeError")
          [] OTHER -> Fail("TypeError")

\* for section, versions in data.items(): self.history[section] = [...]
RECURSIVE LoadItems(_, _, _, _)
LoadItems(h, kids, i, t) ==
    IF i > Len(kids) THEN [error |-> "", history |-> h]
    ELSE LET r == LoadVersions(kids[i].v, kids[i].k, t)
         IN  IF r.error # "" THEN [error |-> r.error, history |-> h]
             ELSE LoadItems(setitem(h, kids[i].k, r.versions), kids, i + 1, t)

load_from_file(h, f, t) ==
    CASE f.t = "missing" -> [error |-> "FileNotFoundError", history |-> h]
      [] f.t = "invalid" -> [error |-> "JSONDecodeError", history |-> h]
      [] f.t # "object"  -> [error |-> "AttributeError", history |-> h]
      [] OTHER           -> LoadItems(h, f.kids, 1, t)

\* documents another writer can leave at the path of the history file
Str(s) == JNode("string", <<>>, s, 0)
Obj(kids) == JNode("object", kids, "", 0)
FullVersion(c, L) ==
    VersionJson([version_id |-> 7, section |-> L, content |-> c,
                 timestamp |-> 0])
OnlyContent(c) == Obj(<< [k |-> "content", v |-> Str(c)] >>)
NoContent(L) ==
    Obj(<< [k |-> "version_id", v |-> JNode("number", <<>>, "", 7)],
           [k |-> "section",    v |-> Str(L)],
           [k |-> "timestamp",  v |-> JNode("string", <<>>, "", 0)] >>)

ForeignFiles ==
    { Obj(<< [k |-> "A", v |-> JArray(<< FullVersion("y", "A") >>)] >>),
      Obj(<< [k |-> "B", v |-> JArray(<< FullVersion("x", "A") >>)] >>),
      Obj(<< [k |-> "A", v |-> JArray(<< OnlyContent("y") >>)] >>),
      Obj(<< [k |-> "A", v |-> JArray(<< NoContent("A") >>)] >>),
      Obj(<< [k |-> "A", v |-> JArray(<< FullVersion("y", "A") >>)],
             [k |-> "B", v |-> JArray(<< NoContent("B") >>)] >>),
      Obj(<< [k |-> "A", v |-> Str("y")] >>),
      Obj(<< [k |-> "A", v |-> Obj(<<>>)] >>),
      JArray(<< FullVersion("y", "A") >>),
      JNode("invalid", <<>>, "", 0) }

\* versions held over all sections
RECURSIVE Held(_)
Held(h) == IF h = <<>> THEN 0 ELSE Len(Head(h).versions) + Held(Tail(h))

\* history = ParagraphHistory() in a new session; the file stays
NewHistory ==
    /\ pc = "ready"
    /\ history' = <<>>
    /\ hop' = Call("__init__", "", "", "", <<>>)
    /\ UNCHANGED <<moreVars, entry, pc, doc, latex_content, passes, parseVars,
                   cleanVars, toolVars, file, persisted, now>>

AddVersion ==
    /\ pc = "ready"
    /\ Held(history) < MaxVersions
    /\ \E L \in Labels, c \in Contents, t \in Ticks :
          /\ history' = add_version(history, L, c, t)
          /\ now' = t
          /\ hop' = Call("add_version", L, c, "", <<>>)
    /\ UNCHANGED <<moreVars, entry, pc, doc, latex_content, passes, parseVars,
                   cleanVars, toolVars, file, persisted>>

GetVersions ==
    /\ pc = "ready"
    /\ \E L \in Labels :
          hop' = Call("get_versions", L, "", "", get_versions(history, L))
    /\ UNCHANGED <<moreVars, entry, pc, doc, latex_content, passes, parseVars,
                   cleanVars, toolVars, history, file, persisted, now>>

SaveToFile ==
    /\ pc = "ready"
    /\ file' = save_to_file(history)
    /\ persisted' = [valid |-> TRUE, history |-> history]
    /\ hop' = Call("save_to_file", "", "", "", <<>>)
    /\ UNCHANGED <<moreVars, entry, pc, doc, latex_content, passes, parseVars,
                   cleanVars, toolVars, history, now>>

LoadFromFile ==
    /\ pc = "ready"
    /\ \E t \in Ticks :
          LET r == load_from_file(history, file, t)
          IN  /\ history' = r.history
              /\ now' = t
              /\ hop' = Call("load_from_file", "", "", r.error, <<>>)
    /\ UNCHANGED <<moreVars, entry, pc, doc, latex_content, passes, parseVars,
                   cleanVars, toolVars, file, persisted>>

\* another writer replaces the file
ForeignWrite ==
    /\ pc = "ready"
    /\ \E f \in ForeignFiles : file' = f
    /\ persisted' = [valid |-> FALSE, history |-> <<>>]
    /\ hop' = Call("foreign write", "", "", "", <<>>)
    /\ UNCHANGED <<moreVars, entry, pc, doc, latex_content, passes, parseVars,
                   cleanVars, toolVars, history, now>>

InitHistory ==
    /\ MoreIdle
    /\ entry = "ParagraphHistory"
    /\ pc = "ready"
    /\ doc = <<>>
    /\ latex_content = <<>>
    /\ PipelineIdle
    /\ HistoryIdle
    /\ ToolsIdle

NextHistory ==
    \/ NewHistory \/ AddVersion \/ GetVersions
    \/ SaveToFile \/ LoadFromFile \/ ForeignWrite

SpecHistory == InitHistory /\ [][NextHistory]_vars

-----------------------------------------------------------------------------
(* extract_changes                                                         *)

MaxParagraphs == 2      \* paragraphs in either argument of extract_changes

ParagraphTexts == {"p", "q"}

\* the paragraph dicts parse_paragraphs produces, numbered from 0
OriginalItem(i, t) ==
    [index |-> i - 1, section |-> "S", subsection |-> "", paragraph |-> t]
Originals ==
    UNION {{[i \in 1..n |-> OriginalItem(i, ts[i])] :
              ts \in [1..n -> ParagraphTexts]} : n \in 0..MaxParagraphs}

\* an edited result: has_final tells whether the dict has the key 'final'
EditedItem(has, t) == [has_final |-> has, final |-> t]
EditedItems ==
    {EditedItem(FALSE, "")} \cup
    {EditedItem(TRUE, t) : t \in ParagraphTexts \cup {""}}
Editeds == UNION {[1..n -> EditedItems] : n \in 0..MaxParagraphs}

\* edited.get('final', default) with '' as the default
FinalOrEmpty(e, default) == IF e.has_final THEN e.final ELSE ""

\* edited.get('final', default)
FinalOf(e, default) == IF e.has_final THEN e.final ELSE default

\* the share of the paragraphs that did not change
UnchangedPercentage(changed_count, n) ==
    IF n # 0 THEN [num |-> (n - changed_count) * 100, den |-> n]
    ELSE [num |-> 0, den |-> 1]

\* (changed_count / len(original_paragraphs) * 100) if original_paragraphs
\* else 0, as the exact quotient num/den that the float stands for
Percentage(changed_count, n) ==
    IF n # 0 THEN [num |-> changed_count * 100, den |-> n]
    ELSE [num |-> 0, den |-> 1]

ChangeRecord(orig, e) ==
    [index |-> orig.index, section |-> orig.section,
     subsection |-> orig.subsection, original |-> orig.paragraph,
     edited |-> FinalOf(e, orig.paragraph),
     change_type |-> IF e.has_final /\ e.final # "" THEN "llm_edit"
                     ELSE "manual_edit"]

\* for orig, edited in zip(original_paragraphs, edited_paragraphs)
RECURSIVE ZipLoop(_, _, _, _, _)
ZipLoop(o, e, i, changes, changed_count) ==
    IF i > Len(o) \/ i > Len(e)
    THEN [changes |-> changes, changed_count |-> changed_count]
    ELSE IF o[i].paragraph # FinalOf(e[i], o[i].paragraph)
         THEN ZipLoop(o, e, i + 1, Append(changes, ChangeRecord(o[i], e[i])),
                      changed_count + 1)
         ELSE ZipLoop(o, e, i + 1, changes, changed_count)

\* the summary with the number of compared pairs as total
extract_changes_counting_pairs(o, e) ==
    LET r == ZipLoop(o, e, 1, <<>>, 0)
    IN  [raised |-> "",
         total_paragraphs |-> IF Len(e) < Len(o) THEN Len(e) ELSE Len(o),
         changed_paragraphs |-> r.changed_count,
         change_percentage |-> Percentage(r.changed_count, Len(o)),
         changes |-> r.changes]

\* the function raises nothing itself: raised is "" in what it returns
extract_changes(o, e) ==
    LET r == ZipLoop(o, e, 1, <<>>, 0)
    IN  [raised |-> "",
         total_paragraphs |-> Len(o),
         changed_paragraphs |-> r.changed_count,
         change_percentage |-> Percentage(r.changed_count, Len(o)),
         changes |-> r.changes]

ExtractChanges ==
    /\ pc = "call"
    /\ summary' = extract_changes(original_paragraphs, edited_paragraphs)
    /\ pc' = "returned"
    /\ UNCHANGED <<moreVars, entry, doc, latex_content, passes, parseVars, cleanVars,
                   historyVars, diffVars, batchVars, original_paragraphs,
                   edited_paragraphs>>

InitChanges ==
    /\ MoreIdle
    /\ entry = "extract_changes"
    /\ pc = "call"
    /\ doc = <<>>
    /\ latex_content = <<>>
    /\ PipelineIdle
    /\ HistoryIdle
    /\ original_paragraphs \in Originals
    /\ edited_paragraphs \in Editeds
    /\ summary = <<>>
    /\ DiffIdle
    /\ BatchIdle

NextChanges == ExtractChanges

SpecChanges == InitChanges /\ [][NextChanges]_vars

-----------------------------------------------------------------------------
(* _compute_unified_diff                                                   *)
(* difflib.unified_diff with its defaults: no junk, three lines of         *)
(* context.  Lines are numbered from 0 and ranges are half-open, as in     *)
(* difflib.                                                                *)

MaxDiffPieces == 3      \* pieces concatenated into an argument of the diff

DiffPieces == {<<"A">>, <<"B">>, <<NL>>}
DiffTexts == Texts(DiffPieces, MaxDiffPieces)

\* the line boundaries str.splitlines knows (ASCII part)
LineEnds == {"\n", "\r", "\f"}

\* 1-based position of the last character of the line that starts at i
LineEnd(s, i) ==
    LET j == FirstIn(s, i, LineEnds)
    IN  IF j = 0 THEN Len(s)
        ELSE IF s[j] = "\r" /\ j < Len(s) /\ s[j + 1] = "\n" THEN j + 1
        ELSE j

\* str.splitlines() without keepends: the line terminators are dropped
RECURSIVE splitlines_dropping_ends(_)
splitlines_dropping_ends(s) ==
    IF s = <<>> THEN <<>>
    ELSE LET e == LineEnd(s, 1)
             j == FirstIn(s, 1, LineEnds)
         IN  <<SubSeq(s, 1, IF j = 0 THEN e ELSE j - 1)>>
                 \o splitlines_dropping_ends(SubSeq(s, e + 1, Len(s)))

\* str.splitlines(keepends=True)
RECURSIVE splitlines(_)
splitlines(s) ==
    IF s = <<>> THEN <<>>
    ELSE LET e == LineEnd(s, 1)
         IN  <<SubSeq(s, 1, e)>> \o splitlines(SubSeq(s, e + 1, Len(s)))

\* SequenceMatcher.find_longest_match: the longest block a[i:i+k] = b[j:j+k]
\* inside a[alo:ahi], b[blo:bhi]; of the longest, the one that starts
\* earliest in a, and of those the one that starts earliest in b
find_longest_match(a, b, alo, ahi, blo, bhi) ==
    LET Cands  == {m \in (alo..ahi) \X (blo..bhi) \X (0..(ahi - alo)) :
                      /\ m[1] + m[3] <= ahi
                      /\ m[2] + m[3] <= bhi
                      /\ \A d \in 1..m[3] : a[m[1] + d] = b[m[2] + d]}
        Better(m, n) == \/ m[3] > n[3]
                        \/ m[3] = n[3] /\ m[1] < n[1]
                        \/ m[3] = n[3] /\ m[1] = n[1] /\ m[2] <= n[2]
    IN  CHOOSE m \in Cands : \A n \in Cands : Better(m, n)

\* SequenceMatcher.get_matching_blocks, without the closing (la, lb, 0):
\* the blocks left of the longest match m, m itself, the blocks right of it
RECURSIVE matching_blocks(_, _, _, _, _, _)
blocks_around(a, b, alo, ahi, blo, bhi, m) ==
    IF m[3] = 0 THEN <<>>
    ELSE matching_blocks(a, b, alo, m[1], blo, m[2])
             \o <<m>>
             \o matching_blocks(a, b, m[1] + m[3], ahi, m[2] + m[3], bhi)

matching_blocks(a, b, alo, ahi, blo, bhi) ==
    blocks_around(a, b, alo, ahi, blo, bhi,
                  find_longest_match(a, b, alo, ahi, blo, bhi))

Opcode(tag, i1, i2, j1, j2) ==
    [tag |-> tag, i1 |-> i1, i2 |-> i2, j1 |-> j1, j2 |-> j2]

\* SequenceMatcher.get_opcodes, one matching block (ai, bj, size): what lies
\* between the end (i, j) of the block before and this block, then the block
opcode_tag(i, j, ai, bj) ==
    IF i < ai /\ j < bj THEN "replace"
    ELSE IF i < ai THEN "delete"
    ELSE IF j < bj THEN "insert"
    ELSE ""

block_opcodes(i, j, ai, bj, size) ==
    (IF opcode_tag(i, j, ai, bj) # ""
     THEN <<Opcode(opcode_tag(i, j, ai, bj), i, ai, j, bj)>> ELSE <<>>)
        \o (IF size > 0
            THEN <<Opcode("equal", ai, ai + size, bj, bj + size)>>
            ELSE <<>>)

RECURSIVE opcodes_from(_, _, _, _)
opcodes_from(blocks, n, i, j) ==
    IF n > Len(blocks) THEN <<>>
    ELSE block_opcodes(i, j, blocks[n][1], blocks[n][2], blocks[n][3])
             \o opcodes_from(blocks, n + 1, blocks[n][1] + blocks[n][3],
                             blocks[n][2] + blocks[n][3])

get_opcodes(a, b) ==
    opcodes_from(matching_blocks(a, b, 0, Len(a), 0, Len(b))
                     \o << <<Len(a), Len(b), 0>> >>, 1, 0, 0)

Context == 3
Max2(x, y) == IF x > y THEN x ELSE y
Min2(x, y) == IF x < y THEN x ELSE y

\* SequenceMatcher.get_grouped_opcodes(3): the unchanged lines at both ends
\* are cut to three.  An unchanged run of more than six lines inside would
\* start a second group; the texts explored here are too short for one.
codes_or_default(c) ==
    IF c = <<>> THEN <<Opcode("equal", 0, 1, 0, 1)>> ELSE c

keep_tail(f) ==
    Opcode(f.tag, Max2(f.i1, f.i2 - Context), f.i2,
           Max2(f.j1, f.j2 - Context), f.j2)

keep_head(l) ==
    Opcode(l.tag, l.i1, Min2(l.i2, l.i1 + Context),
           l.j1, Min2(l.j2, l.j1 + Context))

trim_first(c) ==
    IF c[1].tag = "equal" THEN [c EXCEPT ![1] = keep_tail(c[1])] ELSE c

trim_last(c) ==
    IF c[Len(c)].tag = "equal"
    THEN [c EXCEPT ![Len(c)] = keep_head(c[Len(c)])]
    ELSE c

groups_of(c) == IF Len(c) = 1 /\ c[1].tag = "equal" THEN <<>> ELSE <<c>>

grouped_opcodes(a, b) ==
    groups_of(trim_last(trim_first(codes_or_default(get_opcodes(a, b)))))

Digit(n) == <<"0", "1", "2", "3", "4", "5", "6", "7", "8", "9">>[n + 1]

\* difflib._format_range_unified
format_range_unified(start, stop) ==
    LET length == stop - start
    IN  IF length = 1 THEN <<Digit(start + 1)>>
        ELSE <<Digit(IF length = 0 THEN start ELSE start + 1), ",",
               Digit(length)>>

Prefixed(mark, ls, i1, i2) == [k \in 1..(i2 - i1) |-> <<mark>> \o ls[i1 + k]]

\* the lines of one opcode
opcode_lines(a, b, c) ==
    IF c.tag = "equal" THEN Prefixed(" ", a, c.i1, c.i2)
    ELSE (IF c.tag \in {"replace", "delete"}
          THEN Prefixed("-", a, c.i1, c.i2) ELSE <<>>)
         \o (IF c.tag \in {"replace", "insert"}
             THEN Prefixed("+", b, c.j1, c.j2) ELSE <<>>)

RECURSIVE group_lines(_, _, _, _)
group_lines(a, b, group, n) ==
    IF n > Len(group) THEN <<>>
    ELSE opcode_lines(a, b, group[n]) \o group_lines(a, b, group, n + 1)

\* the two file lines and the @@ line of a group
header_lines(g) ==
    << <<"-","-","-"," ","o","r","i","g","i","n","a","l">>,
       <<"+","+","+"," ","e","d","i","t","e","d">>,
       <<"@","@"," ","-">>
           \o format_range_unified(g[1].i1, g[Len(g)].i2)
           \o <<" ","+">>
           \o format_range_unified(g[1].j1, g[Len(g)].j2)
           \o <<" ","@","@">> >>

diff_lines(a, b, groups) ==
    IF groups = <<>> THEN <<>>
    ELSE header_lines(groups[1]) \o group_lines(a, b, groups[1], 1)

\* difflib.unified_diff(a, b, fromfile='original', tofile='edited',
\* lineterm=''): the lines it yields
unified_diff(a, b) == diff_lines(a, b, grouped_opcodes(a, b))

\* '\n'.join(lines)
RECURSIVE join_lines(_)
join_lines(ls) ==
    IF ls = <<>> THEN <<>>
    ELSE IF Len(ls) = 1 THEN ls[1]
    ELSE ls[1] \o <<NL>> \o join_lines(Tail(ls))

compute_unified_diff(o, e) ==
    join_lines(unified_diff(splitlines(o), splitlines(e)))

ComputeUnifiedDiff ==
    /\ pc = "call"
    /\ diff' = compute_unified_diff(original, edited)
    /\ pc' = "returned"
    /\ UNCHANGED <<moreVars, entry, doc, latex_content, passes, parseVars, cleanVars,
                   historyVars, changeVars, batchVars, original, edited>>

InitDiff ==
    /\ MoreIdle
    /\ entry = "_compute_unified_diff"
    /\ pc = "call"
    /\ doc = <<>>
    /\ latex_content = <<>>
    /\ PipelineIdle
    /\ HistoryIdle
    /\ ChangeIdle
    /\ BatchIdle
    /\ original \in DiffTexts
    /\ edited \in DiffTexts
    /\ diff = <<>>

NextDiff == ComputeUnifiedDiff

SpecDiff == InitDiff /\ [][NextDiff]_vars

-----------------------------------------------------------------------------
(* edit_paragraph_via_llm and process_json_instructions                    *)

MaxItems == 2           \* items in the JSON file of process_json_instructions

\* item.get(key) of a key the item does not have; also global_hint=None
None == "<None>"

\* Python truth of a string or None, and the operator "x or y"
Truthy(v) == v # None /\ v # ""
Or(x, y) == IF Truthy(x) THEN x ELSE y

\* item.get(key, default)
dictget(v, default) == IF v = None THEN default ELSE v

\* the paragraph dicts of the file; a field that is None is a missing key
BaseItem ==
    [index |-> 0, section |-> "S", paragraph |-> "p", original |-> None,
     instruction |-> None, hint |-> None, final |-> None, error |-> None]
ItemShapes ==
    {[BaseItem EXCEPT !.instruction = a, !.hint = h, !.final = f] :
        a \in {None, "", "i"}, h \in {None, "h"}, f \in {None, "f"}}
    \cup {[BaseItem EXCEPT !.instruction = "i", !.paragraph = None,
                           !.original = "o"],
          [BaseItem EXCEPT !.instruction = "i", !.paragraph = None],
          [BaseItem EXCEPT !.instruction = "i", !.section = None]}
Batches ==
    UNION {{[i \in 1..n |-> [s[i] EXCEPT !.index = i - 1]] :
               s \in [1..n -> ItemShapes]} : n \in 0..MaxItems}

EditedTexts == {"e", "d"}       \* what the predictor answers
Failures == {"timeout"}     \* str(e) of what the predictor raises

\* the characters of the texts above
Characters(t) ==
    CASE t = "p" -> <<"p">> [] t = "o" -> <<"o">> [] t = "e" -> <<"e">>
      [] t = "f" -> <<"f">> [] t = "d" -> <<"d">> [] OTHER -> <<>>

\* orig without the fallback to the key 'original'
orig_paragraph_only(item) == Or(item.paragraph, "")

\* orig = item.get('paragraph') or item.get('original') or ''
orig_of(item) == Or(Or(item.paragraph, item.original), "")

\* the precedence with the hint first
instr_hint_first(item, g) == Or(Or(item.hint, item.instruction), g)

\* instr = item.get('instruction') or item.get('hint') or global_hint
instr_of(item, g) == Or(Or(item.instruction, item.hint), g)

\* the arguments process_json_instructions passes to edit_paragraph_via_llm
EditArgs(item, g) ==
    [paragraph_text |-> orig_of(item),
     instruction |-> instr_of(item, g),
     section_title |-> dictget(item.section, ""),
     user_hint |-> Or(Or(dictget(item.hint, ""), g), "")]

\* edit_paragraph_via_llm: the instruction the predictor is given
full_instruction(args) ==
    IF Truthy(args.user_hint)
    THEN args.instruction \o "\n\nUser hints/context: " \o args.user_hint
    ELSE args.instruction

\* hash(paragraph_text): a fixed function, different for different texts
hash_text(t) ==
    CASE t = "p" -> 3 [] t = "o" -> 4 [] t = "e" -> 5 [] t = "f" -> 6
      [] OTHER -> ContentCode(t)

\* the label taken from the text whatever the section
key_ignoring_section(args) ==
    "Paragraph_" \o ToString(hash_text(args.paragraph_text) % IdModulus)

\* edit_paragraph_via_llm: the label the new version is stored under
VersionKey(args) ==
    Or(args.section_title,
       "Paragraph_" \o ToString(hash_text(args.paragraph_text) % IdModulus))

\* one call of edit_paragraph_via_llm: item_no is the loop iteration that
\* made it, raised the str() of the exception ("" for none)
EditCall(k, args, raised) ==
    [item_no |-> k, paragraph_text |-> args.paragraph_text,
     instruction |-> args.instruction, section_title |-> args.section_title,
     user_hint |-> args.user_hint, full_instruction |-> full_instruction(args),
     raised |-> raised]

\* d[key] = v on a dict kept as an ordered list of (key, value)
DictSet(d, key, v) ==
    IF \E i \in 1..Len(d) : d[i].key = key
    THEN [i \in 1..Len(d) |-> IF d[i].key = key THEN [key |-> key, value |-> v]
                              ELSE d[i]]
    ELSE Append(d, [key |-> key, value |-> v])

\* the end of one iteration: item['final'] = final_text, results.append(item)
\* and, when asked for, diffs[str(idx)] = the diff.  The item is the dict of
\* data itself.
Finish(k, item, final_text) ==
    LET done == [item EXCEPT !.final = final_text]
    IN  /\ data' = [data EXCEPT ![k] = done]
        /\ results' = Append(results, done)
        /\ diffs' = IF extract_changes_arg
                    THEN DictSet(diffs, ToString(item.index),
                                 compute_unified_diff(
                                     Characters(orig_of(item)),
                                     Characters(final_text)))
                    ELSE diffs

\* the iteration of an item that is not edited
KeepItem ==
    /\ pc = "loop"
    /\ Len(results) < Len(data)
    /\ LET k == Len(results) + 1
           item == data[k]
       IN  /\ ~(apply_changes /\ Truthy(instr_of(item, global_hint)))
           /\ Finish(k, item, dictget(item.final, orig_of(item)))
    /\ UNCHANGED <<moreVars, entry, pc, doc, latex_content, passes, parseVars,
                   cleanVars, historyVars, changeVars, diffVars,
                   apply_changes, extract_changes_arg, global_hint, calls,
                   written>>

\* the iteration of an item whose edit succeeds: the new text is recorded
\* in the history and becomes the final text
EditItem ==
    /\ pc = "loop"
    /\ Len(results) < Len(data)
    /\ LET k == Len(results) + 1
           item == data[k]
           args == EditArgs(item, global_hint)
       IN  /\ apply_changes /\ Truthy(instr_of(item, global_hint))
           /\ \E e \in EditedTexts, t \in Ticks :
                 /\ calls' = Append(calls, EditCall(k, args, ""))
                 /\ history' = add_version(history, VersionKey(args), e, t)
                 /\ now' = t
                 /\ hop' = Call("add_version", VersionKey(args), e, "", <<>>)
                 /\ Finish(k, item, e)
    /\ UNCHANGED <<moreVars, entry, pc, doc, latex_content, passes, parseVars,
                   cleanVars, file, persisted, changeVars, diffVars,
                   apply_changes, extract_changes_arg, global_hint, written>>

\* the iteration of an item whose edit raises: item['error'] = str(e)
FailItem ==
    /\ pc = "loop"
    /\ Len(results) < Len(data)
    /\ LET k == Len(results) + 1
           item == data[k]
           args == EditArgs(item, global_hint)
       IN  /\ apply_changes /\ Truthy(instr_of(item, global_hint))
           /\ \E e \in Failures :
                 /\ calls' = Append(calls, EditCall(k, args, e))
                 /\ Finish(k, [item EXCEPT !.error = e],
                           dictget(item.final, orig_of(item)))
    /\ UNCHANGED <<moreVars, entry, pc, doc, latex_content, passes, parseVars,
                   cleanVars, historyVars, changeVars, diffVars,
                   apply_changes, extract_changes_arg, global_hint, written>>

\* after the loop: json.dump(results), json.dump(diffs) when asked for
WriteBack ==
    /\ pc = "loop"
    /\ Len(results) = Len(data)
    /\ written' = [processed_json |-> results,
                   has_diffs_json |-> extract_changes_arg,
                   diffs_json |-> IF extract_changes_arg THEN diffs ELSE <<>>]
    /\ pc' = "returned"
    /\ UNCHANGED <<moreVars, entry, doc, latex_content, passes, parseVars, cleanVars,
                   historyVars, changeVars, diffVars, data, apply_changes,
                   extract_changes_arg, global_hint, results, diffs, calls>>

InitBatch ==
    /\ MoreIdle
    /\ entry = "process_json_instructions"
    /\ pc = "loop"
    /\ doc = <<>>
    /\ latex_content = <<>>
    /\ PipelineIdle
    /\ HistoryIdle
    /\ ChangeIdle
    /\ DiffIdle
    /\ data \in Batches
    /\ apply_changes \in BOOLEAN
    /\ extract_changes_arg \in BOOLEAN
    /\ global_hint \in {None, "g"}
    /\ results = <<>>
    /\ diffs = <<>>
    /\ calls = <<>>
    /\ written = <<>>

NextBatch == KeepItem \/ EditItem \/ FailItem \/ WriteBack

SpecBatch == InitBatch /\ [][NextBatch]_vars

-----------------------------------------------------------------------------
(* ParagraphHistory.add_version called from concurrent paragraph edits     *)
(*                                                                         *)
(* Each thread runs edit_paragraph_via_llm for its paragraphs and so calls *)
(* add_version(key, edited); a call may be made under the callers' one     *)
(* lock or without it.  add_version is three statements: the test of line  *)
(* 45, the assignment of line 46 and, on line 47, the lookup of the list   *)
(* object followed by its append; another thread can run between any two.  *)
(* The list of a label is an object: an assignment on line 46 makes a new  *)
(* one (epoch counts them), and an append to a list that is no longer the  *)
(* one in the dict does not show in the history.                           *)

MaxCalls == 2           \* add_version calls each thread makes

Threads == {1, 2}

\* what thread t's edits return: the threads are told apart by it
EditedBy(t) == IF t = 1 THEN "x" ELSE "y"

\* the calls a thread will make: the label and whether it takes the lock
Programs ==
    UNION {[1..n -> [section : Labels, locked : BOOLEAN]] : n \in 0..MaxCalls}

Resting(todo) ==
    [todo |-> todo, at |-> "idle", section |-> "", locked |-> FALSE, ref |-> 0]

\* line 45: section_title not in self.history
absent(h, section_title) == section_title \notin Keys(h)

\* line 46: self.history[section_title] = []
create(h, section_title) == setitem(h, section_title, <<>>)

\* the new version put in front of the list
prepend_version(h, section_title, v) ==
    setitem(h, section_title, <<v>> \o get(h, section_title))

\* line 47: .append(v) on the list that is in the dict
append_version(h, section_title, v) ==
    setitem(h, section_title, Append(get(h, section_title), v))

\* the call starts; a call under the lock waits until the lock is free
Enter(t) ==
    /\ pc = "running"
    /\ threads[t].at = "idle"
    /\ threads[t].todo # <<>>
    /\ LET c == Head(threads[t].todo)
       IN  /\ c.locked => lock = 0
           /\ lock' = IF c.locked THEN t ELSE lock
           /\ threads' = [threads EXCEPT ![t] =
                 [todo |-> Tail(threads[t].todo), at |-> "test",
                  section |-> c.section, locked |-> c.locked, ref |-> 0]]
    /\ UNCHANGED <<entry, pc, doc, latex_content, passes, parseVars,
                   cleanVars, historyVars, toolVars, fetchVars, sessionVars, epoch, log>>

\* line 45
TestAbsent(t) ==
    /\ pc = "running"
    /\ threads[t].at = "test"
    /\ threads' = [threads EXCEPT ![t].at =
          IF absent(history, threads[t].section) THEN "create" ELSE "lookup"]
    /\ UNCHANGED <<entry, pc, doc, latex_content, passes, parseVars,
                   cleanVars, historyVars, toolVars, fetchVars, sessionVars, lock, epoch,
                   log>>

\* line 46
CreateList(t) ==
    /\ pc = "running"
    /\ threads[t].at = "create"
    /\ history' = create(history, threads[t].section)
    /\ epoch' = [epoch EXCEPT ![threads[t].section] = @ + 1]
    /\ threads' = [threads EXCEPT ![t].at = "lookup"]
    /\ UNCHANGED <<entry, pc, doc, latex_content, passes, parseVars,
                   cleanVars, file, persisted, now, hop, toolVars, fetchVars, sessionVars,
                   lock, log>>

\* line 47: self.history[section_title] gives the list object
LookupList(t) ==
    /\ pc = "running"
    /\ threads[t].at = "lookup"
    /\ threads' = [threads EXCEPT ![t].at = "append",
                                  ![t].ref = epoch[threads[t].section]]
    /\ UNCHANGED <<entry, pc, doc, latex_content, passes, parseVars,
                   cleanVars, historyVars, toolVars, fetchVars, sessionVars, lock, epoch,
                   log>>

\* line 47: ParagraphVersion(content, section_title) appended to that
\* object; the call returns and, if it held the lock, releases it
AppendVersion(t) ==
    /\ pc = "running"
    /\ threads[t].at = "append"
    /\ LET L == threads[t].section
           v == ParagraphVersion(EditedBy(t), L, now)
       IN  /\ history' = IF threads[t].ref = epoch[L]
                         THEN append_version(history, L, v)
                         ELSE history
           /\ log' = Append(log, [thread |-> t, section |-> L,
                                  content |-> EditedBy(t),
                                  locked |-> threads[t].locked])
    /\ lock' = IF threads[t].locked THEN 0 ELSE lock
    /\ threads' = [threads EXCEPT ![t] = Resting(threads[t].todo)]
    /\ UNCHANGED <<entry, pc, doc, latex_content, passes, parseVars,
                   cleanVars, file, persisted, now, hop, toolVars, fetchVars, sessionVars,
                   epoch>>

InitThreads ==
    /\ entry = "add_version"
    /\ pc = "running"
    /\ doc = <<>>
    /\ latex_content = <<>>
    /\ PipelineIdle
    /\ HistoryIdle
    /\ ToolsIdle
    /\ FetchIdle
    /\ SessionIdle
    /\ threads \in {[t \in Threads |-> Resting(p[t])] : p \in [Threads -> Programs]}
    /\ lock = 0
    /\ epoch = [L \in Labels |-> 0]
    /\ log = <<>>

NextThreads ==
    \E t \in Threads :
        \/ Enter(t) \/ TestAbsent(t) \/ CreateList(t) \/ LookupList(t)
        \/ AppendVersion(t)

SpecThreads == InitThreads /\ [][NextThreads]_vars

-----------------------------------------------------------------------------
(* DocumentationFetcher.fetch_url (utils.py)                               *)
(*                                                                         *)
(* One attempt is the body of the try: the GET, raise_for_status and the   *)
(* conversion of the page.  It ends normally or with an Exception, whose   *)
(* str() is one of FetchErrors.                                            *)

MaxRetries == 4         \* largest max_retries the fetcher is built with

Delays == {0, 1}
FetchErrors == {"timeout", "404"}
Titles == {"T", "No title"}     \* soup.title.string if soup.title else ...

\* a wait after every failed attempt
sleeps_after_every_failure(a, n) == a < n

\* line 199: if attempt < self.max_retries - 1
sleeps_before_retry(a, n) == a < n - 1

\* lines 176-195: the attempt succeeds and its result is returned
AttemptSucceeds ==
    /\ pc = "loop"
    /\ attempt < max_retries
    /\ \E t \in Titles :
          fetched' = [url |-> "u", title |-> t, content |-> "md",
                      success |-> TRUE]
    /\ trace' = Append(trace, "ok")
    /\ pc' = "returned"
    /\ UNCHANGED <<entry, doc, latex_content, passes, parseVars, cleanVars,
                   editVars, threadVars, sessionVars, max_retries, delay, attempt>>

\* lines 197-200: the attempt fails and is not the last: time.sleep(delay),
\* then the next iteration
AttemptFailsRetry ==
    /\ pc = "loop"
    /\ attempt < max_retries
    /\ sleeps_before_retry(attempt, max_retries)
    /\ \E e \in FetchErrors :
          trace' = trace \o <<"failed: " \o e, "sleep">>
    /\ attempt' = attempt + 1
    /\ UNCHANGED <<entry, pc, doc, latex_content, passes, parseVars,
                   cleanVars, editVars, threadVars, sessionVars, max_retries, delay,
                   fetched>>

\* lines 197-207: the last attempt fails
AttemptFailsLast ==
    /\ pc = "loop"
    /\ attempt < max_retries
    /\ ~sleeps_before_retry(attempt, max_retries)
    /\ \E e \in FetchErrors :
          /\ trace' = Append(trace, "failed: " \o e)
          /\ fetched' = [url |-> "u", title |-> "Failed to fetch",
                         content |-> "Error: " \o e, success |-> FALSE]
    /\ pc' = "returned"
    /\ UNCHANGED <<entry, doc, latex_content, passes, parseVars, cleanVars,
                   editVars, threadVars, sessionVars, max_retries, delay, attempt>>

\* line 209: the loop ran out of attempts without returning
Exhausted ==
    /\ pc = "loop"
    /\ attempt >= max_retries
    /\ fetched' = [url |-> "u", title |-> "Failed", content |-> "",
                   success |-> FALSE]
    /\ pc' = "returned"
    /\ UNCHANGED <<entry, doc, latex_content, passes, parseVars, cleanVars,
                   editVars, threadVars, sessionVars, max_retries, delay, attempt, trace>>

InitFetch ==
    /\ entry = "fetch_url"
    /\ pc = "loop"
    /\ doc = <<>>
    /\ latex_content = <<>>
    /\ PipelineIdle
    /\ EditIdle
    /\ ThreadsIdle
    /\ SessionIdle
    /\ max_retries \in 0..MaxRetries
    /\ delay \in Delays
    /\ attempt = 0
    /\ trace = <<>>
    /\ fetched = <<>>

NextFetch ==
    AttemptSucceeds \/ AttemptFailsRetry \/ AttemptFailsLast \/ Exhausted

SpecFetch == InitFetch /\ [][NextFetch]_vars

-----------------------------------------------------------------------------
(* ProposalGenerator.import_and_edit_latex                                 *)
(*                                                                         *)
(* paragraphs is what parse_paragraphs returned for the file.  The loop    *)
(* stands at paragraphs[Len(results) + 1].  A choice is what input() gave  *)
(* after .strip().lower().  An exception of the edit is not caught in this *)
(* function and ends it.                                                   *)

MaxSession == 2         \* paragraphs of the imported file
MaxPrompts == 3         \* choices the user makes at one paragraph

SessionSections == {"S", ""}
HintInputs == {"", "h", "k"}
InstructionInputs == {"", "i"}
Replacements == {"", "m"}       \* "" when the first line typed is .end

\* line 524
DefaultInstruction == "Improve clarity and grammar while preserving meaning."

ParsedItem(i, s, t) ==
    [index |-> i - 1, section |-> s, subsection |-> "", paragraph |-> t,
     is_in_environment |-> FALSE]

ParsedLists ==
    UNION {{[i \in 1..n |-> ParsedItem(i, ss[i], ts[i])] :
              ss \in [1..n -> SessionSections], ts \in [1..n -> ParagraphTexts]}
           : n \in 0..MaxSession}

\* the result with the text in place of the paragraph's own
result_overwriting(item, final_text) ==
    [final |-> final_text, paragraph |-> final_text] @@ item

\* {**p, 'final': final_text}
result_of(item, final_text) == [final |-> final_text] @@ item

\* the results as extract_changes reads them: dicts that have the key final
AsEdited(rs) == [i \in 1..Len(rs) |-> EditedItem(TRUE, rs[i].final)]

\* p, the paragraph the loop stands at
cur_p == paragraphs[Len(results) + 1]

\* self.edit_paragraph_via_llm(para_text, instr, section_title=p['section']
\* or '', user_hint=hint)
SessionArgs(instr, hint) ==
    [paragraph_text |-> cur_p.paragraph, instruction |-> instr,
     section_title |-> Or(cur_p.section, ""), user_hint |-> hint]

\* line 549: p['section'] or f'Paragraph_{p["index"]}'
ReplaceKey(item) == Or(item.section, "Paragraph_" \o ToString(item.index))

\* what no step of the session changes
sessionFrame ==
    <<entry, doc, latex_content, passes, parseVars, cleanVars, file,
      persisted, edited_paragraphs, diffVars, data, apply_changes,
      extract_changes_arg, global_hint, diffs, written, threadVars,
      fetchVars, interactive, auto_instruction, auto_hints,
      extract_changes_summary>>

\* results.append({**p, 'final': final_text})
Finalise(final_text, choice) ==
    /\ results' = Append(results, result_of(cur_p, final_text))
    /\ chosen' = Append(chosen, choice)

\* edit_paragraph_via_llm returns: the version is recorded
Edited(args, e, t) ==
    /\ calls' = Append(calls, EditCall(Len(results) + 1, args, ""))
    /\ history' = add_version(history, VersionKey(args), e, t)
    /\ now' = t
    /\ hop' = Call("add_version", VersionKey(args), e, "", <<>>)

\* lines 501-503
StartSession ==
    /\ pc = "call"
    /\ results' = <<>>
    /\ original_paragraphs' = paragraphs
    /\ pc' = "loop"
    /\ UNCHANGED <<sessionFrame, summary, history, now, hop, calls,
                   current_hint, prompts, chosen>>

\* lines 505-518: the next paragraph is shown and a choice is awaited
ShowParagraph ==
    /\ pc = "loop"
    /\ Len(results) < Len(paragraphs)
    /\ interactive
    /\ current_hint' = ""
    /\ prompts' = 0
    /\ pc' = "awaiting"
    /\ UNCHANGED <<sessionFrame, original_paragraphs, results, summary,
                   history, now, hop, calls, chosen>>

\* lines 521-532: choice e, the edit returns
ChooseEdit ==
    /\ pc = "awaiting"
    /\ \E typed \in InstructionInputs, e \in EditedTexts, t \in Ticks :
          LET instr == IF typed = "" THEN DefaultInstruction ELSE typed
          IN  /\ Edited(SessionArgs(instr, current_hint), e, t)
              /\ Finalise(e, "e")
    /\ prompts' = prompts + 1
    /\ pc' = "loop"
    /\ UNCHANGED <<sessionFrame, original_paragraphs, summary, current_hint>>

\* lines 525 and 565: the edit raises, in either mode
EditRaises ==
    /\ \/ pc = "awaiting"
       \/ /\ pc = "loop"
          /\ Len(results) < Len(paragraphs)
          /\ ~interactive
          /\ Truthy(auto_instruction)
    /\ \E typed \in InstructionInputs, e \in Failures :
          LET instr == IF interactive
                       THEN IF typed = "" THEN DefaultInstruction ELSE typed
                       ELSE auto_instruction
              hint == IF interactive THEN current_hint ELSE Or(auto_hints, "")
          IN  calls' = Append(calls, EditCall(Len(results) + 1,
                                              SessionArgs(instr, hint), e))
    /\ pc' = "raised"
    /\ UNCHANGED <<sessionFrame, original_paragraphs, results, summary,
                   history, now, hop, current_hint, prompts, chosen>>

\* lines 533-539: choice h
ChooseHint ==
    /\ pc = "awaiting"
    /\ prompts + 1 < MaxPrompts
    /\ \E hint_input \in HintInputs :
          current_hint' = IF hint_input # "" THEN hint_input ELSE current_hint
    /\ prompts' = prompts + 1
    /\ UNCHANGED <<sessionFrame, pc, original_paragraphs, results, summary,
                   history, now, hop, calls, chosen>>

\* lines 540-550: choice r
ChooseReplace ==
    /\ pc = "awaiting"
    /\ \E final_text \in Replacements, t \in Ticks :
          /\ history' = add_version(history, ReplaceKey(cur_p), final_text, t)
          /\ now' = t
          /\ hop' = Call("add_version", ReplaceKey(cur_p), final_text, "", <<>>)
          /\ Finalise(final_text, "r")
    /\ prompts' = prompts + 1
    /\ pc' = "loop"
    /\ UNCHANGED <<sessionFrame, original_paragraphs, summary, calls,
                   current_hint>>

\* lines 551-552 and 571: choice s
ChooseSkip ==
    /\ pc = "awaiting"
    /\ Finalise(cur_p.paragraph, "s")
    /\ prompts' = prompts + 1
    /\ pc' = "loop"
    /\ UNCHANGED <<sessionFrame, original_paragraphs, summary, history, now,
                   hop, calls, current_hint>>

\* lines 553-559: choice q
ChooseQuit ==
    /\ pc = "awaiting"
    /\ Finalise(cur_p.paragraph, "q")
    /\ summary' = IF extract_changes_summary
                  THEN extract_changes(original_paragraphs, AsEdited(results'))
                  ELSE summary
    /\ prompts' = prompts + 1
    /\ pc' = "returned"
    /\ UNCHANGED <<sessionFrame, original_paragraphs, history, now, hop,
                   calls, current_hint>>

\* lines 560-561: any other choice
ChooseUnknown ==
    /\ pc = "awaiting"
    /\ prompts + 1 < MaxPrompts
    /\ prompts' = prompts + 1
    /\ UNCHANGED <<sessionFrame, pc, original_paragraphs, results, summary,
                   history, now, hop, calls, current_hint, chosen>>

\* lines 562-571: non-interactive with an instruction, the edit returns
AutoEdit ==
    /\ pc = "loop"
    /\ Len(results) < Len(paragraphs)
    /\ ~interactive
    /\ Truthy(auto_instruction)
    /\ \E e \in EditedTexts, t \in Ticks :
          /\ Edited(SessionArgs(auto_instruction, Or(auto_hints, "")), e, t)
          /\ Finalise(e, "auto")
    /\ UNCHANGED <<sessionFrame, pc, original_paragraphs, summary,
                   current_hint, prompts>>

\* lines 562-571: non-interactive without an instruction
AutoKeep ==
    /\ pc = "loop"
    /\ Len(results) < Len(paragraphs)
    /\ ~interactive
    /\ ~Truthy(auto_instruction)
    /\ Finalise(cur_p.paragraph, "keep")
    /\ UNCHANGED <<sessionFrame, pc, original_paragraphs, summary, history,
                   now, hop, calls, current_hint, prompts>>

\* lines 573-576: after the last paragraph
EndSession ==
    /\ pc = "loop"
    /\ Len(results) = Len(paragraphs)
    /\ summary' = IF extract_changes_summary
                  THEN extract_changes(original_paragraphs, AsEdited(results))
                  ELSE summary
    /\ pc' = "returned"
    /\ UNCHANGED <<sessionFrame, original_paragraphs, results, history, now,
                   hop, calls, current_hint, prompts, chosen>>

InitSession ==
    /\ entry = "import_and_edit_latex"
    /\ pc = "call"
    /\ doc = <<>>
    /\ latex_content = <<>>
    /\ ParserIdle
    /\ paragraphs \in ParsedLists
    /\ EditIdle
    /\ ThreadsIdle
    /\ FetchIdle
    /\ interactive \in BOOLEAN
    /\ auto_instruction \in IF interactive THEN {None} ELSE {None, "", "a"}
    /\ auto_hints \in IF interactive THEN {None} ELSE {None, "g"}
    /\ extract_changes_summary \in BOOLEAN
    /\ current_hint = ""
    /\ prompts = 0
    /\ chosen = <<>>

NextSession ==
    \/ StartSession \/ ShowParagraph \/ ChooseEdit \/ EditRaises \/ ChooseHint
    \/ ChooseReplace \/ ChooseSkip \/ ChooseQuit \/ ChooseUnknown
    \/ AutoEdit \/ AutoKeep \/ EndSession

SpecSession == InitSession /\ [][NextSession]_vars

Init ==
    \/ InitStrip \/ InitParse \/ InitClean \/ InitHistory \/ InitChanges
    \/ InitDiff \/ InitBatch \/ InitThreads \/ InitFetch
    \/ InitSession

Next ==
    \/ NextStrip \/ NextParse \/ NextClean \/ NextHistory \/ NextChanges
    \/ NextDiff \/ NextBatch \/ NextThreads \/ NextFetch
    \/ NextSession

Spec == Init /\ [][Next]_vars

-----------------------------------------------------------------------------
(* Notions the properties are stated with.                                 *)

\* the set of characters of a text
Chars(s) == {s[i] : i \in 1..Len(s)}

\* position just after the brace that closes a group opened before j,
\* counting every brace at any depth; 0 when the group is never closed
RECURSIVE ClosingBrace(_, _, _)
ClosingBrace(s, j, depth) ==
    IF j > Len(s) THEN 0
    ELSE IF s[j] = "{" THEN ClosingBrace(s, j + 1, depth + 1)
    ELSE IF s[j] = "}"
         THEN IF depth = 0 THEN j + 1 ELSE ClosingBrace(s, j + 1, depth - 1)
    ELSE ClosingBrace(s, j + 1, depth)

\* the ignore construct that starts at i: \ignore{ through its matching brace
ConstructEnd(s, i) ==
    IF IsPrefixAt(IgnoreOpen, s, i)
    THEN ClosingBrace(s, i + Len(IgnoreOpen), 0)
    ELSE 0

\* positions of s that lie inside some ignore construct of s
InsideIgnore(s) ==
    {j \in 1..Len(s) :
        \E i \in 1..j : ConstructEnd(s, i) # 0 /\ j < ConstructEnd(s, i)}

\* s with exactly its ignore constructs deleted, everything else in place
RECURSIVE KeepOutside(_, _, _)
KeepOutside(s, I, j) ==
    IF j > Len(s) THEN <<>>
    ELSE (IF j \in I THEN <<>> ELSE <<s[j]>>) \o KeepOutside(s, I, j + 1)

WithoutIgnoreConstructs(s) == KeepOutside(s, InsideIgnore(s), 1)

\* 0-based offset at which candidate k (trimmed) really lies in content
TrueOffset(k) ==
    LET sp == SplitSpans(content)[k]
    IN  sp.start + SpanEnd(sp.text, 1, Whitespace) - 1

\* k-th smallest element of a set of numbers
Kth(S, k) == CHOOSE x \in S : Cardinality({y \in S : y < x}) = k - 1

\* candidates among the first n that the loop turns into a paragraph
Survivors(n) ==
    {k \in 1..n :
        LET p == strip(raw_paras[k])
        IN  /\ p # <<>>
            /\ ~SkipsAsStructure(p)
            /\ p \notin Directives
            /\ clean_paragraph_text(p) # <<>>}

\* the candidate the k-th returned paragraph was made from
Origin(k) == Kth(Survivors(idx), k)

\* a bare \section{..} or \subsection{..} declaration, or a fixed directive
BareDeclaration(lit, p) ==
    LET b == MarkerBrace(lit, p, 1)
    IN  b # 0 /\ FirstIn(p, b + 1, {"}"}) = Len(p)

StructuralOnly(p) ==
    \/ BareDeclaration(LitSection, p)
    \/ BareDeclaration(LitSubsection, p)
    \/ p \in Directives

SectionMarkers == {k \in 1..Len(sections_map) : sections_map[k].type = "section"}

SubsectionMarkers ==
    {k \in 1..Len(sections_map) : sections_map[k].type = "subsection"}

-----------------------------------------------------------------------------
(* Properties.                                                             *)

ScenarioExpected ==
    <<[index |-> 0, section |-> <<"I","n","t","r","o">>, subsection |-> <<>>,
       paragraph |-> <<"H","e","l","l","o"," ","w","o","r","l","d",".">>],
      [index |-> 1, section |-> <<"I","n","t","r","o">>, subsection |-> <<"D","e","t","a","i","l","s">>,
       paragraph |-> <<"M","o","r","e"," ","t","e","x","t",".">>],
      [index |-> 2, section |-> <<"N","e","x","t">>, subsection |-> <<>>,
       paragraph |-> <<"F","i","n","a","l",".">>]>>

Fields(p) ==
    [index |-> p.index, section |-> p.section, subsection |-> p.subsection,
     paragraph |-> p.paragraph]

\* C1: parse_paragraphs applied to the scenario document (three
\* blank-line-separated blocks, each a section or subsection line followed
\* by a line of prose) returns exactly the three paragraphs
\* (0, Intro, "", Hello world.), (1, Intro, Details, More text.),
\* (2, Next, "", Final.).
C1_ScenarioParsesToThree ==
    (entry = "parse_paragraphs" /\ pc = "done" /\ doc = ScenarioDoc)
    => /\ Len(paragraphs) = 3
       /\ \A k \in 1..3 : Fields(paragraphs[k]) = ScenarioExpected[k]

\* C2: a candidate is dropped only if it is empty after trimming, purely a
\* structural declaration, or empty after cleaning; every other candidate
\* (also a section line followed by prose) yields exactly one paragraph, so
\* the number of paragraphs is the number of candidates that are none of
\* these, and no paragraph has empty text.
C2_CountEqualsNonStructuralCandidates ==
    (entry = "parse_paragraphs" /\ pc = "done")
    => /\ Len(paragraphs) =
            Cardinality({k \in 1..Len(raw_paras) :
                LET p == strip(raw_paras[k])
                IN  /\ p # <<>>
                    /\ ~StructuralOnly(p)
                    /\ clean_paragraph_text(p) # <<>>})
       /\ \A k \in 1..Len(paragraphs) : paragraphs[k].paragraph # <<>>

\* C3: at every point of the loop and at return, the k-th paragraph has
\* index k-1 (0..n-1, no gap, no repeat), the paragraphs are as many as the
\* surviving candidates seen so far (a dropped candidate consumes no index),
\* and the k-th paragraph is the cleaned text of the k-th surviving
\* candidate in the order of the text.
C3_IndexesAreDocumentOrder ==
    (entry = "parse_paragraphs" /\ pc \in {"loop", "done"})
    => /\ Len(paragraphs) = Cardinality(Survivors(idx))
       /\ \A k \in 1..Len(paragraphs) :
            /\ paragraphs[k].index = k - 1
            /\ paragraphs[k].paragraph =
                    clean_paragraph_text(strip(raw_paras[Origin(k)]))

\* C3 witness: two paragraphs were returned with a dropped candidate
\* between the candidates they were made from.
C3_Witness ==
    /\ entry = "parse_paragraphs"
    /\ pc = "done"
    /\ Len(paragraphs) = 2
    /\ Origin(2) > Origin(1) + 1
    /\ paragraphs[2].index = 1

\* C4: the removal loop terminates on every input: every pass that does not
\* end the loop strictly shortens the text, so a text with an opening token
\* that no pass can match is not iterated on forever.
C4_EveryPassShortens ==
    [][(pc = "strip" /\ pc' = "strip")
        => Len(latex_content') < Len(latex_content)]_vars

\* C5: _remove_ignore_blocks removes every ignore construct, nested ones
\* included: the result holds no \ignore{ token, and when the content
\* marker d occurs in the input only inside ignore constructs, the result
\* holds no d, however many constructs the input has.
C5_IgnoredContentRemoved ==
    (entry = "_remove_ignore_blocks" /\ pc = "stripped")
    => /\ ~Contains(latex_content, IgnoreOpen)
       /\ (\A j \in 1..Len(doc) : doc[j] = "d" => j \in InsideIgnore(doc))
            => "d" \notin Chars(latex_content)

\* C5 witness: the document with an ignore block inside an ignore block
\* was stripped to the text around the outer block.
C5_Witness ==
    /\ entry = "_remove_ignore_blocks"
    /\ pc = "stripped"
    /\ doc = NestedIgnoreDoc
    /\ latex_content = <<"k", " ", " ", "k">>

\* C6: the output of _remove_ignore_blocks equals the input with exactly
\* its ignore constructs deleted, all other text byte-identical and in
\* order; an input without an ignore construct is returned unchanged.
C6_OnlyIgnoreConstructsDeleted ==
    (entry = "_remove_ignore_blocks" /\ pc = "stripped")
    => latex_content = WithoutIgnoreConstructs(doc)

\* C7: a paragraph lying after a section marker M never reports the title
\* of a section marker that precedes M (unless a marker from M on, still
\* before the paragraph, carries that title too).
C7_AttributionMonotonic ==
    (entry = "parse_paragraphs" /\ pc = "done")
    => \A k \in 1..Len(paragraphs) :
         \A m \in SectionMarkers :
           sections_map[m].pos <= TrueOffset(Origin(k))
           => \A e \in SectionMarkers :
                (/\ sections_map[e].pos < sections_map[m].pos
                 /\ paragraphs[k].section = sections_map[e].title)
                => \E l \in SectionMarkers :
                     /\ sections_map[l].pos >= sections_map[m].pos
                     /\ sections_map[l].pos <= TrueOffset(Origin(k))
                     /\ sections_map[l].title = paragraphs[k].section

\* C8: a paragraph's subsection is non-empty only if a Subsection marker
\* lies at or before the paragraph's offset with no Section marker between
\* that marker and the paragraph; a document without markers attributes
\* every paragraph to the empty section and the empty subsection.
C8_SubsectionOnlyAfterLastSection ==
    (entry = "parse_paragraphs" /\ pc = "done")
    => \A k \in 1..Len(paragraphs) :
         /\ paragraphs[k].subsection # <<>>
            => \E u \in SubsectionMarkers :
                 /\ sections_map[u].pos <= TrueOffset(Origin(k))
                 /\ sections_map[u].title = paragraphs[k].subsection
                 /\ ~\E m \in SectionMarkers :
                       /\ sections_map[m].pos > sections_map[u].pos
                       /\ sections_map[m].pos <= TrueOffset(Origin(k))
         /\ sections_map = <<>>
            => paragraphs[k].section = <<>> /\ paragraphs[k].subsection = <<>>

\* C9: cleaning is idempotent: cleaning a text that _clean_paragraph_text
\* returned gives that text back.
C9_CleanIdempotent ==
    (entry = "_clean_paragraph_text" /\ pc = "recleaned") => cleaned = text

\* C10: the output of _clean_paragraph_text holds no citation, reference or
\* label command and no text-styling command, and the argument of every
\* styling command of the input (here: an argument of plain letters) is
\* still in the output.
C10_NoCommandLeftArgumentsKept ==
    (entry = "_clean_paragraph_text" /\ pc = "cleaned")
    => /\ \A i \in 1..Len(cleaned) :
            MatchCommand(RefNames \cup FormatNames, cleaned, i) = 0
       /\ \A i \in 1..Len(text) :
            LET b == CommandBrace(FormatNames, text, i)
                e == MatchCommand(FormatNames, text, i)
                arg == SubSeq(text, b + 1, e - 2)
            IN  (e # 0 /\ arg # <<>> /\ Chars(arg) \subseteq WordChars)
                => Contains(cleaned, arg)

-----------------------------------------------------------------------------
(* Version store                                                           *)

\* the contents held for a label, oldest first
ContentsOf(h, L) == [i \in 1..Len(get(h, L)) |-> get(h, L)[i].content]

\* C11: add_version(L, c) always succeeds, also for a content already held;
\* it lengthens the sequence of L by one, with c last and labelled L, and
\* changes no earlier version of L and no other label.  get_versions(L)
\* changes nothing and returns the versions of L in the order they were
\* added, each with section = L; for a label never added it returns the
\* empty sequence.
C11_AppendSemantics ==
    [][ /\ hop'.op = "add_version" =>
              LET L == hop'.section
                  n == Len(get(history, L))
              IN  /\ hop'.error = ""
                  /\ Len(get(history', L)) = n + 1
                  /\ get(history', L)[n + 1].content = hop'.content
                  /\ get(history', L)[n + 1].section_title = L
                  /\ \A i \in 1..n : get(history', L)[i] = get(history, L)[i]
                  /\ \A M \in Labels \ {L} :
                        /\ get(history', M) = get(history, M)
                        /\ M \in Keys(history') <=> M \in Keys(history)
        /\ hop'.op = "get_versions" =>
              LET L == hop'.section
                  r == hop'.result
              IN  /\ history' = history
                  /\ hop'.error = ""
                  /\ Len(r) = Len(get(history, L))
                  /\ \A i \in 1..Len(r) :
                        /\ r[i].content = ContentsOf(history, L)[i]
                        /\ r[i].section = L
                  /\ L \notin Keys(history) => r = <<>>
      ]_vars

\* two versions of one label, the same content added twice, read back
C11_Witness ==
    /\ hop.op = "get_versions"
    /\ hop.section = "A"
    /\ Len(hop.result) = 2
    /\ hop.result[1].content = "x"
    /\ hop.result[2].content = "x"
    /\ ~persisted.valid
    /\ file = NoFile

\* the labels a JSON document gives versions for
FileLabels(f) == {f.kids[i].k : i \in 1..Len(f.kids)}

\* C12: a load that succeeds replaces the in-memory history: a label that
\* had versions before the load and is absent from the loaded document has
\* no versions afterwards.
C12_LoadReplaces ==
    [][ (hop'.op = "load_from_file" /\ hop'.error = "") =>
            \A L \in Labels :
                (get(history, L) # <<>> /\ L \notin FileLabels(file))
                    => get(history', L) = <<>>
      ]_vars

\* the same contents, label by label
SameContents(h1, h2) == \A L \in Labels : ContentsOf(h1, L) = ContentsOf(h2, L)

\* C13: loading the document that save_to_file wrote, into the store that
\* was saved or into a new one, succeeds and gives every label the ordered
\* contents it had when the history was saved.
C13_RoundTrip ==
    [][ ( /\ hop'.op = "load_from_file"
          /\ persisted.valid
          /\ history = <<>> \/ history = persisted.history )
        => /\ hop'.error = ""
           /\ SameContents(history', persisted.history)
      ]_vars

\* a saved history of two different contents under one label, loaded back
\* at a later instant: the versions are new objects with the old contents
C13_Witness ==
    /\ hop.op = "load_from_file"
    /\ hop.error = ""
    /\ persisted.valid
    /\ file = save_to_file(persisted.history)
    /\ ContentsOf(persisted.history, "A") = <<"y", "x">>
    /\ SameContents(history, persisted.history)
    /\ history # persisted.history

\* the shape of a history document: a mapping from labels to lists of
\* objects with the four fields of a version
VersionFields == {"version_id", "section", "content", "timestamp"}
WellFormedHistory(f) ==
    /\ f.t = "object"
    /\ \A i \in 1..Len(f.kids) :
          /\ f.kids[i].v.t = "array"
          /\ \A j \in 1..Len(f.kids[i].v.kids) :
                LET o == f.kids[i].v.kids[j].v
                IN  /\ o.t = "object"
                    /\ \A name \in VersionFields : HasMember(o, name)

\* C14: loading a document that is not a well-formed history fails.
C14_MalformedRejected ==
    (hop.op = "load_from_file" /\ ~WellFormedHistory(file)) => hop.error # ""

-----------------------------------------------------------------------------
(* Change summary                                                          *)

\* the positions both arguments of extract_changes have
Paired ==
    1..(IF Len(original_paragraphs) < Len(edited_paragraphs)
        THEN Len(original_paragraphs) ELSE Len(edited_paragraphs))

\* C15: extract_changes called with sequences of unequal length signals
\* MismatchedSequenceLength instead of returning a summary.
C15_UnequalLengthsRejected ==
    (pc = "returned" /\ Len(original_paragraphs) # Len(edited_paragraphs))
        => summary.raised = "MismatchedSequenceLength"

\* C16: when at every paired position the final text equals the original
\* text, extract_changes reports changed_paragraphs = 0 and
\* change_percentage = 0; for an empty original sequence it returns, without
\* a division fault, a summary whose change_percentage is 0.
C16_IdenticalReportsZero ==
    pc = "returned" =>
        /\ (\A i \in Paired :
               edited_paragraphs[i].has_final =>
                   edited_paragraphs[i].final = original_paragraphs[i].paragraph)
             => /\ summary.changed_paragraphs = 0
                /\ summary.change_percentage.num = 0
        /\ original_paragraphs = <<>>
             => /\ summary.raised = ""
                /\ summary.change_percentage.num = 0

\* two paragraphs whose finals repeat the originals
C16_Witness ==
    /\ pc = "returned"
    /\ Len(original_paragraphs) = 2
    /\ Len(edited_paragraphs) = 2
    /\ \A i \in 1..2 :
          /\ edited_paragraphs[i].has_final
          /\ edited_paragraphs[i].final = original_paragraphs[i].paragraph
    /\ original_paragraphs[1].paragraph # original_paragraphs[2].paragraph

\* the paired positions whose final text is there and differs
Differing ==
    {i \in Paired :
        /\ edited_paragraphs[i].has_final
        /\ edited_paragraphs[i].final # original_paragraphs[i].paragraph}

\* C17: extract_changes pairs its arguments by position and gives one
\* change record, in order, for exactly the positions whose final text
\* differs from the original text (a result without final is unchanged);
\* changed_paragraphs is the number of records, total_paragraphs the length
\* of the original sequence, and changed_paragraphs <= total_paragraphs.
C17_RecordsExactlyTheDifferences ==
    pc = "returned" =>
        /\ Len(summary.changes) = Cardinality(Differing)
        /\ \A i \in Differing :
              LET r == summary.changes[Cardinality({j \in Differing : j <= i})]
              IN  /\ r.index = original_paragraphs[i].index
                  /\ r.original = original_paragraphs[i].paragraph
                  /\ r.edited = edited_paragraphs[i].final
        /\ summary.changed_paragraphs = Len(summary.changes)
        /\ summary.total_paragraphs = Len(original_paragraphs)
        /\ summary.changed_paragraphs <= summary.total_paragraphs

\* the first paragraph was changed, the second has no final
C17_Witness ==
    /\ pc = "returned"
    /\ Len(original_paragraphs) = 2
    /\ Len(edited_paragraphs) = 2
    /\ Differing = {1}
    /\ ~edited_paragraphs[2].has_final
    /\ Len(summary.changes) = 1

-----------------------------------------------------------------------------
(* Unified diff                                                            *)

\* a text of exactly one line, with or without its terminator
SingleLine(t) ==
    /\ t # <<>>
    /\ \A i \in 1..(Len(t) - 1) : t[i] \notin LineEnds

\* the text d has the line l: at the start or after a newline, and followed
\* by a newline or the end
HasLine(d, l) ==
    \E i \in 1..Len(d) :
        /\ IsPrefixAt(l, d, i)
        /\ i = 1 \/ d[i - 1] = NL
        /\ i + Len(l) > Len(d) \/ d[i + Len(l)] = NL

\* C18: _compute_unified_diff(x, x) is the empty text for every x, and for
\* two different texts a, b of one line each the diff is not empty and has
\* the removal line "-a" and the addition line "+b".
C18_DiffOfEqualAndOfSingleLines ==
    pc = "returned" =>
        /\ original = edited => diff = <<>>
        /\ (SingleLine(original) /\ SingleLine(edited) /\ original # edited)
             => /\ diff # <<>>
                /\ HasLine(diff, <<"-">> \o original)
                /\ HasLine(diff, <<"+">> \o edited)

\* "A" against "B"
C18_Witness ==
    /\ pc = "returned"
    /\ original = <<"A">>
    /\ edited = <<"B">>
    /\ HasLine(diff, <<"-", "A">>)

\* a text of two lines against itself
C18_WitnessEqual ==
    /\ pc = "returned"
    /\ original = <<"A", NL, "B">>
    /\ edited = original
    /\ diff = <<>>

-----------------------------------------------------------------------------
(* Batch instruction application                                           *)

\* a field that is given and not empty
Present(v) == v # None /\ v # ""

\* the instruction of an item by precedence: its instruction, else its
\* hint, else the global hint
Effective(item) ==
    IF Present(item.instruction) THEN item.instruction
    ELSE IF Present(item.hint) THEN item.hint
    ELSE global_hint

\* the calls of edit_paragraph_via_llm that iteration k made
CallsOf(k) == {c \in 1..Len(calls) : calls[c].item_no = k}

\* C19: the instruction of an item is its own instruction if present (given
\* and not empty), else its hint, else the global hint; the edit is invoked for
\* an item exactly when apply_changes is true and an instruction resolves,
\* once, with the resolved instruction; no call belongs to an item not yet
\* processed.
C19_InstructionPrecedence ==
    /\ \A k \in 1..Len(results) :
          IF apply_changes /\ Present(Effective(data[k]))
          THEN /\ Cardinality(CallsOf(k)) = 1
               /\ \A c \in CallsOf(k) :
                     calls[c].instruction = Effective(data[k])
          ELSE CallsOf(k) = {}
    /\ \A c \in 1..Len(calls) : calls[c].item_no <= Len(results)

\* a finished batch of two items: the first has an empty instruction and a
\* hint, the second has neither and takes the global hint
C19_Witness ==
    /\ pc = "returned"
    /\ apply_changes
    /\ global_hint = "g"
    /\ Len(data) = 2
    /\ data[1].instruction = "" /\ data[1].hint = "h"
    /\ data[2].instruction = None /\ data[2].hint = None
    /\ Len(calls) = 2
    /\ calls[1].instruction = "h"
    /\ calls[2].instruction = "g"

\* the text of an item before the batch: its paragraph, else its original
OriginalText(item) ==
    IF Present(item.paragraph) THEN item.paragraph
    ELSE IF Present(item.original) THEN item.original
    ELSE ""

\* C20: an item whose edit failed has its original text as final, also when
\* it came with a final of its own, and the failure description as error; an
\* item whose edit did not fail has no error; the batch goes on to the last
\* item whatever failed.
C20_FailureKeepsOriginal ==
    /\ \A k \in 1..Len(results) :
          IF \E c \in CallsOf(k) : calls[c].raised # ""
          THEN /\ results[k].final = OriginalText(data[k])
               /\ \A c \in CallsOf(k) : results[k].error = calls[c].raised
          ELSE results[k].error = None
    /\ pc = "returned" => Len(results) = Len(data)


\* the text an item ends with when no edit is applied to it: the final it
\* came with, else its original text
Untouched(item) ==
    IF item.final # None THEN item.final ELSE OriginalText(item)

\* iteration k of this step ended with a successful edit
EditedNow(k) ==
    /\ Len(calls') = Len(calls) + 1
    /\ calls'[Len(calls')].item_no = k
    /\ calls'[Len(calls')].raised = ""

SyntheticLabels == {"Paragraph_" \o ToString(n) : n \in 0..(IdModulus - 1)}
IsSynthetic(L) == L \in SyntheticLabels

\* result r belongs to an item whose edit succeeded
EditSucceeded(r) ==
    \E c \in CallsOf(r.index + 1) : calls[c].raised = ""

\* the finals of the successfully edited items of section L, in item order
FinalsOf(L) ==
    LET Mine(r) == r.section = L /\ EditSucceeded(r)
        rs == SelectSeq(results, Mine)
    IN  [i \in 1..Len(rs) |-> rs[i].final]

\* C26: an iteration whose edit succeeds appends one version, with the
\* edited text as content, to the bucket of the item's section, or of a
\* Paragraph_ label when the item has no section, and changes no other bucket;
\* every other step leaves the store alone.  So the store holds one version
\* per successful edit, none when apply_changes is false, and the bucket of a
\* section holds the edits of its items in item order.
C26_OneVersionPerSuccessfulEdit ==
    /\ [][LET k == Len(results) + 1
          IN  IF results' # results /\ EditedNow(k)
              THEN \E L \in Keys(history') :
                     /\ IF Present(data[k].section) THEN L = data[k].section
                        ELSE IsSynthetic(L)
                     /\ Len(get(history', L)) = Len(get(history, L)) + 1
                     /\ ContentsOf(history', L)
                           = Append(ContentsOf(history, L), results'[k].final)
                     /\ \A M \in Keys(history') \ {L} :
                           M \in Keys(history) /\ get(history', M) = get(history, M)
                     /\ Keys(history) \subseteq Keys(history')
              ELSE history' = history
         ]_vars
    /\ [](/\ Held(history)
               = Cardinality({c \in 1..Len(calls) : calls[c].raised = ""})
          /\ ~apply_changes => history = <<>>
          /\ \A L \in Keys(history) :
                IsSynthetic(L) \/ ContentsOf(history, L) = FinalsOf(L))

\* two items of section S edited to different texts
C26_Witness ==
    /\ pc = "returned"
    /\ Len(results) = 2
    /\ ContentsOf(history, "S") = <<"d", "e">>


-----------------------------------------------------------------------------
(* Failed load                                                             *)

\* C29: a load_from_file call that ends in an error leaves the history as
\* it was before the call, also when the entry at fault comes after
\* well-formed entries of the document.
C29_FailedLoadChangesNothing ==
    [][ (hop'.op = "load_from_file" /\ hop'.error # "") => history' = history
      ]_vars


-----------------------------------------------------------------------------
(* Forward search of parse_paragraphs                                      *)

\* C27: for every candidate parse_paragraphs looks up, content.find gives
\* an offset (never -1) that is at least the search start section_pos and at
\* most the candidate's true offset in the text, and the search start never
\* decreases from one candidate to the next.
C27_ForwardSearchFindsInOrder ==
    \A i \in 1..Len(located) :
        /\ located[i].found # -1
        /\ located[i].found >= located[i].from
        /\ located[i].found <= TrueOffset(located[i].cand)
        /\ i > 1 => located[i].from >= located[i - 1].from
        /\ section_pos >= located[i].from

\* a parse whose second search stops at an earlier copy of the candidate's
\* text, before the candidate itself
C27_Witness ==
    /\ entry = "parse_paragraphs"
    /\ pc = "done"
    /\ Len(located) = 2
    /\ located[2].from > 0
    /\ located[2].found < TrueOffset(located[2].cand)


-----------------------------------------------------------------------------
(* Concurrent appends                                                      *)

\* the contents of the add_version calls on label L that ran to their end,
\* in the order they ended
LogOf(L) ==
    LET Mine(c) == c.section = L
        cs == SelectSeq(log, Mine)
    IN  [i \in 1..Len(cs) |-> cs[i].content]

\* some call on label L, made, running or still to come, is without the lock
Unserialized(L) ==
    \/ \E i \in 1..Len(log) : log[i].section = L /\ ~log[i].locked
    \/ \E t \in Threads :
          \/ /\ threads[t].at # "idle"
             /\ threads[t].section = L
             /\ ~threads[t].locked
          \/ \E i \in 1..Len(threads[t].todo) :
                /\ threads[t].todo[i].section = L
                /\ ~threads[t].todo[i].locked

\* C22: a label whose add_version calls all run under the lock holds the
\* content of every finished call, in the order the calls were executed; a
\* label never holds more versions than calls were made on it, and it holds
\* fewer only if its list was created more than once, that is if two calls
\* both found the label absent.
C22_SerializedAppendsLoseNothing ==
    \A L \in Labels :
        /\ ~Unserialized(L) => ContentsOf(history, L) = LogOf(L)
        /\ Len(get(history, L)) <= Len(LogOf(L))
        /\ epoch[L] <= 1 => ContentsOf(history, L) = LogOf(L)

\* both threads are done: their calls on A, under the lock, are both held,
\* in the order they ran; of their calls on B, without the lock, one version
\* is lost
C22_Witness ==
    /\ entry = "add_version"
    /\ \A t \in Threads : threads[t].at = "idle" /\ threads[t].todo = <<>>
    /\ ~Unserialized("A")
    /\ LogOf("A") = <<"y", "x">>
    /\ ContentsOf(history, "A") = <<"y", "x">>
    /\ Len(LogOf("B")) = 2
    /\ Len(get(history, "B")) = 1


-----------------------------------------------------------------------------
(* Retries of fetch_url                                                    *)

IsAttempt(ev) == ev # "sleep"

Attempts == {i \in 1..Len(trace) : IsAttempt(trace[i])}

\* C30: fetch_url makes at most max_retries attempts; a successful attempt
\* is the last thing it does and its result is returned with success True;
\* it waits only after a failed attempt that another attempt follows, never
\* after the last; the result has success False exactly when no attempt
\* succeeded, and then all max_retries attempts were made (none for
\* max_retries = 0); every run that ends returns a result dict.
C30_BoundedRetries ==
    /\ Cardinality(Attempts) <= max_retries
    /\ \A i \in 1..Len(trace) :
          /\ trace[i] = "ok" => (i = Len(trace) /\ pc = "returned")
          /\ trace[i] = "sleep" =>
                /\ i > 1 /\ trace[i - 1] \notin {"ok", "sleep"}
                /\ IF i < Len(trace) THEN IsAttempt(trace[i + 1])
                   ELSE pc = "loop" /\ attempt < max_retries
    /\ pc = "returned" =>
          /\ fetched # <<>>
          /\ fetched.success = (\E i \in Attempts : trace[i] = "ok")
          /\ ~fetched.success => Cardinality(Attempts) = max_retries
    /\ pc = "loop" => fetched = <<>>

\* three attempts allowed: two fail, each followed by a wait, the third
\* succeeds
C30_Witness ==
    /\ entry = "fetch_url"
    /\ pc = "returned"
    /\ max_retries = 3
    /\ trace = <<"failed: timeout", "sleep", "failed: 404", "sleep", "ok">>
    /\ fetched.success


-----------------------------------------------------------------------------
(* Interactive editing session                                             *)

\* result r is paragraph item with final added and nothing else changed
AddsFinal(r, item) ==
    /\ DOMAIN r = DOMAIN item \cup {"final"}
    /\ \A f \in DOMAIN item : r[f] = item[f]

\* C23: no step of import_and_edit_latex changes a parsed paragraph; once
\* the session has started original_paragraphs equals the parsed list, and
\* every result is the paragraph of its position with final added.
C23_ParagraphsNeverMutated ==
    /\ [][paragraphs' = paragraphs]_vars
    /\ [](pc # "call" =>
            /\ original_paragraphs = paragraphs
            /\ Len(results) <= Len(paragraphs)
            /\ \A k \in 1..Len(results) : AddsFinal(results[k], paragraphs[k]))

\* a finished session in which the first paragraph was edited by the LLM and
\* the second replaced by hand: the results carry the new texts, the parsed
\* paragraphs their own
C23_Witness ==
    /\ entry = "import_and_edit_latex"
    /\ pc = "returned"
    /\ chosen = <<"e", "r">>
    /\ paragraphs[1].paragraph = "p" /\ results[1].final = "e"
    /\ paragraphs[2].paragraph = "q" /\ results[2].final = "m"


\* a step that asks the edit collaborator
EditAsked == Len(calls') = Len(calls) + 1

\* what every step of the loop does, whatever the edit collaborator does:
\* the session starts by showing the first paragraph; Replacing and Skipped
\* add one result and go to the next paragraph; Hinting and an unknown choice
\* stay at the paragraph and add no result; Quit ends the session; a new
\* paragraph starts without a hint, and the edit is given the hint saved at
\* its own paragraph; a skipped paragraph keeps its text.
LoopSteps ==
    /\ pc = "call" => pc' = "loop"
    /\ (pc = "loop" /\ pc' = "awaiting") =>
          /\ current_hint' = ""
          /\ results' = results
    /\ pc = "awaiting" =>
          /\ pc' \in {"awaiting", "loop", "returned", "raised"}
          /\ pc' = "awaiting" =>
                /\ results' = results
                /\ calls' = calls
                /\ history' = history
          /\ pc' = "loop" =>
                /\ Len(results') = Len(results) + 1
                /\ SubSeq(results', 1, Len(results)) = results
                /\ chosen'[Len(chosen')] \in {"e", "r", "s"}
          /\ pc' = "returned" =>
                /\ chosen'[Len(chosen')] = "q"
                /\ Len(results') = Len(results) + 1
          /\ EditAsked =>
                /\ calls'[Len(calls')].user_hint = current_hint
                /\ calls'[Len(calls')].item_no = Len(results) + 1
          /\ (chosen' # chosen /\ chosen'[Len(chosen')] = "s") =>
                results'[Len(results')].final
                    = paragraphs[Len(results')].paragraph

\* C24 as stated: in addition, Editing always gives its paragraph a result
\* and goes on to the next paragraph.
C24_EveryChoiceFinalisesOrStays ==
    [][/\ LoopSteps
       /\ (pc = "awaiting" /\ EditAsked) =>
             /\ pc' = "loop"
             /\ Len(results') = Len(results) + 1
             /\ chosen'[Len(chosen')] = "e"
      ]_vars

\* what the code does at Editing: it gives the paragraph a result and goes
\* on to the next paragraph when the edit returns; when the edit raises, the
\* exception ends the session and the paragraph gets no result.
EditFinalisesUnlessItRaises ==
    [][/\ LoopSteps
       /\ (pc = "awaiting" /\ EditAsked) =>
             IF calls'[Len(calls')].raised = ""
             THEN /\ pc' = "loop"
                  /\ Len(results') = Len(results) + 1
                  /\ chosen'[Len(chosen')] = "e"
                  /\ results'[Len(results')].final
                        = get(history', VersionKey(calls'[Len(calls')]))
                             [Len(get(history', VersionKey(calls'[Len(calls')])))]
                             .content
             ELSE /\ pc' = "raised"
                  /\ results' = results
                  /\ history' = history
      ]_vars

\* the hint of the first paragraph did not reach the edit of the second
HintStaysWithItsParagraph ==
    /\ entry = "import_and_edit_latex"
    /\ pc = "returned"
    /\ chosen = <<"e", "e">>
    /\ Len(calls) = 2
    /\ calls[1].user_hint = "k"
    /\ calls[2].user_hint = ""
    /\ prompts = 1


\* the choice that produced the final text of the paragraph numbered i
ProducedBy(i) == chosen[i + 1]

\* C25: in the summary the session returns, a change whose text came from
\* the LLM edit is classified llm_edit and a change whose text came from a
\* manual replacement is classified manual_edit.
C25_ChangeTypeTellsTheSource ==
    (entry = "import_and_edit_latex" /\ pc = "returned"
        /\ extract_changes_summary)
    => \A c \in 1..Len(summary.changes) :
          LET ch == summary.changes[c]
          IN  /\ ProducedBy(ch.index) \in {"e", "auto"}
                    => ch.change_type = "llm_edit"
              /\ ProducedBy(ch.index) = "r"
                    => ch.change_type = "manual_edit"


\* the session ended by the choice q
QuitSession ==
    /\ entry = "import_and_edit_latex"
    /\ pc = "returned"
    /\ chosen # <<>>
    /\ chosen[Len(chosen)] = "q"

\* C28: when the user quits at paragraph k (numbered from 0) the results
\* are the records of paragraphs 0..k in document order, the last with its
\* original text as final; no later paragraph was edited, replaced or
\* recorded; and a requested summary was computed, without an exception, from
\* the full original list and this shorter result list, its total_paragraphs
\* being the full paragraph count.
C28_QuitReturnsThePrefix ==
    QuitSession =>
        LET k == Len(results) - 1
        IN  /\ Len(results) <= Len(paragraphs)
            /\ \A j \in 1..Len(results) :
                  /\ AddsFinal(results[j], paragraphs[j])
                  /\ results[j].index = j - 1
            /\ results[k + 1].final = paragraphs[k + 1].paragraph
            /\ \A j \in 1..k : chosen[j] # "q"
            /\ Len(chosen) = Len(results)
            /\ \A c \in 1..Len(calls) : calls[c].item_no <= k
            /\ Held(history) <= k
            /\ IF extract_changes_summary
               THEN /\ summary # <<>>
                    /\ summary.raised = ""
                    /\ original_paragraphs = paragraphs
                    /\ summary.total_paragraphs = Len(paragraphs)
                    /\ \A c \in 1..Len(summary.changes) :
                          summary.changes[c].index < k
               ELSE summary = <<>>

\* the user quit at the first of two paragraphs, with the summary asked for
C28_Witness ==
    /\ QuitSession
    /\ extract_changes_summary
    /\ Len(paragraphs) = 2
    /\ Len(results) = 1
    /\ summary.total_paragraphs = 2
    /\ summary.changed_paragraphs = 0

=============================================================================
